---- MODULE Spec2Model ----
(***************************************************************************)
(* komorebi: the window-manager hierarchy (monitors -> workspaces ->       *)
(* containers -> windows), its reducers (window_manager.rs), the           *)
(* container stack (container.rs) and the window value object (window.rs). *)
(*                                                                         *)
(* Indices are 0-based as in the code; At/Has/RemoveAt/InsertAt translate  *)
(* to TLA+'s 1-based sequences.  Option::None is NoIdx for an index,       *)
(* NoWindow for a window and NoContainer for a container.                  *)
(*                                                                         *)
(* ring.rs, workspace.rs and monitor.rs are not among the sources; their   *)
(* operations are modelled from sections 4.1, 4.4 and 4.5 of the design,   *)
(* one operator per operation, doing what the text of the operation says.  *)
(***************************************************************************)
EXTENDS Integers, Sequences, FiniteSets, TLC

\* ------------------------------------------------------------- bounds
\* window handles known to the OS: 1..NumWindows
NumWindows == 2
\* monitors loaded by init
NumMonitors == 2
\* cap on the workspaces of one monitor (ensure_workspace_count never shrinks)
MaxWorkspaces == 2

Hwnds == 1 .. NumWindows
NoWindow == 0
NoIdx == -1

\* ------------------------------------------------------------- sequences
Min(a, b) == IF a < b THEN a ELSE b
Range(s) == {s[i] : i \in 1 .. Len(s)}
At(s, i) == s[i + 1]
Has(s, i) == i >= 0 /\ i < Len(s)
RemoveAt(s, i) == SubSeq(s, 1, i) \o SubSeq(s, i + 2, Len(s))
InsertAt(s, i, x) == SubSeq(s, 1, i) \o <<x>> \o SubSeq(s, i + 1, Len(s))
SetAt(s, i, x) == [s EXCEPT ![i + 1] = x]
\* the first 0-based position of x in s, NoIdx when absent (Iterator::position)
RECURSIVE PositionFrom(_, _, _)
PositionFrom(s, x, i) ==
    IF i >= Len(s) THEN NoIdx
    ELSE IF At(s, i) = x THEN i
    ELSE PositionFrom(s, x, i + 1)
Position(s, x) == PositionFrom(s, x, 0)

\* ------------------------------------------------------------- Ring<T> (4.1)
Ring(es, f) == [elements |-> es, focused |-> f]
EmptyRing == Ring(<<>>, 0)
RLen(r) == Len(r.elements)
RGet(r, i) == At(r.elements, i)
RHas(r, i) == Has(r.elements, i)
\* push_back(x): append; focused index unchanged
RingPushBack(r, x) == Ring(Append(r.elements, x), r.focused)
\* remove(i): if i < focused_idx it decrements; if i = focused_idx and the new
\* length is > 0 it becomes min(focused_idx, len-1)
RingRemove(r, i) ==
    IF ~RHas(r, i) THEN r
    ELSE LET n == RLen(r) - 1 IN
         Ring(RemoveAt(r.elements, i),
              IF i < r.focused THEN r.focused - 1
              ELSE IF i = r.focused /\ n > 0 THEN Min(r.focused, n - 1)
              ELSE r.focused)
\* insert(i, x): if i <= focused_idx, focused_idx increments (an empty ring
\* has no focused index to shift)
RingInsert(r, i, x) ==
    Ring(InsertAt(r.elements, i, x),
         IF RLen(r) > 0 /\ i <= r.focused THEN r.focused + 1 ELSE r.focused)
\* swap(i, j): focused_idx follows the element it pointed at
RingSwap(r, i, j) ==
    Ring([k \in 1 .. RLen(r) |->
             IF k = i + 1 THEN RGet(r, j)
             ELSE IF k = j + 1 THEN RGet(r, i)
             ELSE r.elements[k]],
         IF r.focused = i THEN j ELSE IF r.focused = j THEN i ELSE r.focused)
\* focus(i): set focused_idx = i
RingFocus(r, i) == Ring(r.elements, i)
RingSet(r, i, x) == Ring(SetAt(r.elements, i, x), r.focused)
RingFocusedOk(r) == RLen(r) > 0 => (r.focused >= 0 /\ r.focused < RLen(r))

\* ------------------------------------------------------------- Window: the hidden registry
\* a hide that pushes the handle without looking for it first
HidePushAlways(hidden, h) == Append(hidden, h)
\* Window::hide: push the handle unless HIDDEN_HWNDS already contains it
hide(hidden, h) == IF h \in Range(hidden) THEN hidden ELSE Append(hidden, h)
\* Window::restore: remove the first position holding the handle
restore(hidden, h) ==
    IF Position(hidden, h) = NoIdx THEN hidden
    ELSE RemoveAt(hidden, Position(hidden, h))
\* Window::maximize: the same removal, then the OS maximize call
maximize(hidden, h) ==
    IF Position(hidden, h) = NoIdx THEN hidden
    ELSE RemoveAt(hidden, Position(hidden, h))
RECURSIVE HideAll(_, _)
HideAll(hidden, ws) ==
    IF ws = <<>> THEN hidden ELSE HideAll(hide(hidden, Head(ws)), Tail(ws))
RECURSIVE RestoreAll(_, _)
RestoreAll(hidden, ws) ==
    IF ws = <<>> THEN hidden ELSE RestoreAll(restore(hidden, Head(ws)), Tail(ws))

\* ------------------------------------------------------------- Container
Container(id, windows) == [id |-> id, windows |-> windows]
NoContainer == Container(0, EmptyRing)
ContainerOf(id, h) == Container(id, Ring(<<h>>, 0))
focused_window_idx(c) == c.windows.focused
focused_window(c) ==
    IF RHas(c.windows, c.windows.focused) THEN RGet(c.windows, c.windows.focused)
    ELSE NoWindow
contains_window(c, h) == h \in Range(c.windows.elements)
\* idx_for_window keeps the last matching index
idx_for_window(c, h) ==
    IF ~contains_window(c, h) THEN NoIdx
    ELSE CHOOSE i \in 0 .. RLen(c.windows) - 1 :
            /\ RGet(c.windows, i) = h
            /\ \A j \in i + 1 .. RLen(c.windows) - 1 : RGet(c.windows, j) # h
focus_window(c, i) == [c EXCEPT !.windows = RingFocus(@, i)]
\* remove_window_by_idx: VecDeque::remove on the deque windows_mut() hands
\* out; the elements after idx shift down, an idx out of range removes
\* nothing, and the focused index of the ring is not touched
remove_window_by_idx(c, i) ==
    IF ~RHas(c.windows, i) THEN c
    ELSE [c EXCEPT !.windows = Ring(RemoveAt(@.elements, i), @.focused)]
\* the Option<Window> remove_focused_window returns: what VecDeque::remove
\* found at focused_idx
RemovedFocusedWindow(c) ==
    IF RHas(c.windows, focused_window_idx(c))
    THEN RGet(c.windows, focused_window_idx(c)) ELSE NoWindow
\* remove_focused_window: remove at focused_idx, then focus focused_idx - 1
\* unless focused_idx was 0
remove_focused_window(c) ==
    LET focused_idx == focused_window_idx(c)
        removed == remove_window_by_idx(c, focused_idx)
    IN  IF focused_idx # 0 THEN focus_window(removed, focused_idx - 1) ELSE removed
\* add_window: push_back, then focus the last index
add_window(c, h) ==
    LET pushed == [c EXCEPT !.windows = RingPushBack(@, h)] IN
    focus_window(pushed, RLen(pushed.windows) - 1)
\* load_focused_window: restore the focused window, hide every other one
RECURSIVE LoadFrom(_, _, _)
LoadFrom(c, hidden, i) ==
    IF i >= RLen(c.windows) THEN hidden
    ELSE LoadFrom(c,
                  IF i = focused_window_idx(c) THEN restore(hidden, RGet(c.windows, i))
                  ELSE hide(hidden, RGet(c.windows, i)),
                  i + 1)
load_focused_window(c, hidden) == LoadFrom(c, hidden, 0)

\* ------------------------------------------------------------- Workspace (4.4)
NoRestore == <<NoIdx, NoIdx, 0>>
NoResize == <<>>
\* a padding is an Option<i32>: None is the empty sequence and Some(size) the
\* sequence <<size>>, so that no size is taken for None; a workspace starts
\* with both paddings Some(DefaultPadding)
NoPadding == <<>>
DefaultPadding == 0
DefaultWorkspace ==
    [containers |-> EmptyRing,
     workspace_padding |-> <<DefaultPadding>>,
     container_padding |-> <<DefaultPadding>>,
     monocle_container |-> NoContainer,
     monocle_restore_idx |-> NoIdx,
     maximized_window |-> NoWindow,
     maximized_window_restore_idx |-> NoRestore,
     floating_windows |-> <<>>,
     resize_dimensions |-> <<>>,
     layout |-> "BSP",
     layout_flip |-> "None",
     tile |-> TRUE]
\* the result of a fallible operation: st is "ok", "err" (an Err returned to
\* the caller) or "panic" (the call aborts the process); v is the value left
\* behind, which after "err" holds whatever was mutated before the error
Res(st, v) == [st |-> st, v |-> v]
Ok(v) == Res("ok", v)
Err(v) == Res("err", v)
Panic(v) == Res("panic", v)

focused_container_idx(ws) == ws.containers.focused
HasFocusedContainer(ws) == RHas(ws.containers, ws.containers.focused)
focused_container(ws) == RGet(ws.containers, ws.containers.focused)
focus_container(ws, i) == [ws EXCEPT !.containers = RingFocus(@, i)]
swap_containers(ws, i, j) == [ws EXCEPT !.containers = RingSwap(@, i, j)]
SetContainer(ws, i, c) == [ws EXCEPT !.containers = RingSet(@, i, c)]
\* visible_windows: for each container its focused window, or None
visible_windows(ws) ==
    [k \in 1 .. RLen(ws.containers) |-> focused_window(ws.containers.elements[k])]
\* every window of the containers ring, in container order
RECURSIVE FlattenFrom(_, _)
FlattenFrom(cs, k) ==
    IF k > Len(cs) THEN <<>> ELSE cs[k].windows.elements \o FlattenFrom(cs, k + 1)
ContainerWindows(ws) == FlattenFrom(ws.containers.elements, 1)
MonocleWindows(ws) ==
    IF ws.monocle_container = NoContainer THEN <<>>
    ELSE ws.monocle_container.windows.elements
MaximizedWindows(ws) ==
    IF ws.maximized_window = NoWindow THEN <<>> ELSE <<ws.maximized_window>>
\* every window the workspace holds: containers, monocle, maximized, floating
AllWindows(ws) ==
    ContainerWindows(ws) \o MonocleWindows(ws) \o MaximizedWindows(ws)
        \o ws.floating_windows
\* the first container holding the handle, NoIdx when none does
RECURSIVE ContainerIdxFrom(_, _, _)
ContainerIdxFrom(ws, h, i) ==
    IF i >= RLen(ws.containers) THEN NoIdx
    ELSE IF contains_window(RGet(ws.containers, i), h) THEN i
    ELSE ContainerIdxFrom(ws, h, i + 1)
container_idx_for_window(ws, h) == ContainerIdxFrom(ws, h, 0)
\* a container leaves the ring together with its resize slot
RemoveContainer(ws, i) ==
    [ws EXCEPT !.containers = RingRemove(@, i),
               !.resize_dimensions = IF Has(@, i) THEN RemoveAt(@, i) ELSE @]
\* an emptied container left in the ring
KeepEmptied(ws, i) == ws
\* a container whose last window was removed is removed
RemoveEmptied(ws, i) ==
    IF RLen(RGet(ws.containers, i).windows) = 0 THEN RemoveContainer(ws, i)
    ELSE ws
\* new_container_for_window(w): a fresh container holding only w, push_back,
\* push None into resize_dimensions, focus the new container
new_container_for_window(ws, id, h) ==
    LET pushed == [ws EXCEPT !.containers = RingPushBack(@, ContainerOf(id, h)),
                             !.resize_dimensions = Append(@, NoResize)]
    IN  focus_container(pushed, RLen(pushed.containers) - 1)
\* remove_window(hwnd): remove it from the container holding it; clean the
\* container when that empties it
remove_window(ws, h) ==
    LET ci == container_idx_for_window(ws, h) IN
    IF ci = NoIdx THEN Err(ws)
    ELSE LET c == RGet(ws.containers, ci)
             without == remove_window_by_idx(c, idx_for_window(c, h))
         IN  Ok(RemoveEmptied(SetContainer(ws, ci, without), ci))
\* remove_focused_container: take the focused container out of the ring and
\* re-focus as Container::remove_focused_window does
remove_focused_container(ws) ==
    LET f == focused_container_idx(ws)
        removed == RemoveContainer(ws, f)
    IN  IF f # 0 THEN focus_container(removed, f - 1) ELSE removed
\* add_container(c): add to the containers
add_container(ws, c) == [ws EXCEPT !.containers = RingPushBack(@, c)]
\* promote_container: move the focused container to index 0 and focus it
promote_container(ws) ==
    IF ~HasFocusedContainer(ws) THEN Err(ws)
    ELSE LET f == focused_container_idx(ws)
             c == focused_container(ws)
             moved == RingInsert(RingRemove(ws.containers, f), 0, c)
         IN  Ok([ws EXCEPT !.containers = RingFocus(moved, 0)])
\* new_container_for_focused_window: promote the focused window into a new
\* container right after the focused container
new_container_for_focused_window(ws, id) ==
    IF ~HasFocusedContainer(ws) \/ focused_window(focused_container(ws)) = NoWindow
    THEN Err(ws)
    ELSE LET f == focused_container_idx(ws)
             c == focused_container(ws)
             h == focused_window(c)
             src == SetContainer(ws, f, remove_focused_window(c))
             emptied == RLen(RGet(src.containers, f).windows) = 0
             cleaned == RemoveEmptied(src, f)
             at == IF emptied THEN f ELSE f + 1
         IN  Ok([cleaned EXCEPT
                    !.containers = RingInsert(@, at, ContainerOf(id, h))])
\* move_window_to_container(target_idx): move the focused window of the
\* focused container into the container at target_idx; a source that empties
\* is removed
move_window_to_container(ws, target_idx) ==
    IF ~HasFocusedContainer(ws) \/ focused_window(focused_container(ws)) = NoWindow
    THEN Err(ws)
    ELSE LET f == focused_container_idx(ws)
             c == focused_container(ws)
             h == focused_window(c)
             src == RemoveEmptied(SetContainer(ws, f, remove_focused_window(c)), f)
         IN  IF ~RHas(src.containers, target_idx) THEN Err(src)
             ELSE Ok(SetContainer(src, target_idx,
                                  add_window(RGet(src.containers, target_idx), h)))
\* new_floating_window: pop the focused window of the focused container
\* (remove_window) and push it onto floating_windows
new_floating_window(ws) ==
    IF ~HasFocusedContainer(ws) \/ focused_window(focused_container(ws)) = NoWindow
    THEN Err(ws)
    ELSE LET h == focused_window(focused_container(ws))
             r == remove_window(ws, h)
         IN  IF r.st # "ok" THEN r
             ELSE Ok([r.v EXCEPT !.floating_windows = Append(@, h)])
\* new_container_for_floating_window: pop the foreground window from
\* floating_windows and insert it as a new container at focused_idx + 1
new_container_for_floating_window(ws, id, fg) ==
    IF Position(ws.floating_windows, fg) = NoIdx THEN Err(ws)
    ELSE LET popped == [ws EXCEPT !.floating_windows =
                                      RemoveAt(@, Position(@, fg))]
             at == focused_container_idx(ws) + 1
         IN  IF at > RLen(ws.containers) THEN Panic(popped)
             ELSE Ok([popped EXCEPT
                        !.containers = RingInsert(@, at, ContainerOf(id, fg))])
\* new_monocle_container: stash the focused container and its index, remove
\* it from containers
new_monocle_container(ws) ==
    IF ~HasFocusedContainer(ws) THEN Err(ws)
    ELSE Ok([RemoveContainer(ws, focused_container_idx(ws)) EXCEPT
                 !.monocle_container = focused_container(ws),
                 !.monocle_restore_idx = focused_container_idx(ws)])
\* reintegrate_monocle_container: put the stashed container back at its
\* remembered index and focus it
reintegrate_monocle_container(ws) ==
    IF ws.monocle_container = NoContainer \/ ws.monocle_restore_idx = NoIdx
    THEN Err(ws)
    ELSE IF ws.monocle_restore_idx > RLen(ws.containers) THEN Panic(ws)
    ELSE Ok([ws EXCEPT
               !.containers = RingFocus(RingInsert(@, ws.monocle_restore_idx,
                                                   ws.monocle_container),
                                        ws.monocle_restore_idx),
               !.monocle_container = NoContainer,
               !.monocle_restore_idx = NoIdx])
\* new_maximized_window: remove the focused window from the focused
\* container, remember (container idx, window idx, container id); a source
\* that empties is removed
new_maximized_window(ws) ==
    IF ~HasFocusedContainer(ws) \/ focused_window(focused_container(ws)) = NoWindow
    THEN Err(ws)
    ELSE LET f == focused_container_idx(ws)
             c == focused_container(ws)
             src == SetContainer(ws, f, remove_focused_window(c))
         IN  Ok([RemoveEmptied(src, f) EXCEPT
                    !.maximized_window = focused_window(c),
                    !.maximized_window_restore_idx =
                        <<f, focused_window_idx(c), c.id>>])
\* the index of the container with this id, NoIdx when it is gone
RECURSIVE IdxOfIdFrom(_, _, _)
IdxOfIdFrom(ws, id, i) ==
    IF i >= RLen(ws.containers) THEN NoIdx
    ELSE IF RGet(ws.containers, i).id = id THEN i
    ELSE IdxOfIdFrom(ws, id, i + 1)
container_idx_for_id(ws, id) == IdxOfIdFrom(ws, id, 0)
\* reintegrate_maximized_window: if the original container is still present
\* reinsert the window at the remembered sub-index, else create a new
\* container for it at the end
reintegrate_maximized_window(ws, id) ==
    IF ws.maximized_window = NoWindow THEN Err(ws)
    ELSE LET h == ws.maximized_window
             widx == ws.maximized_window_restore_idx[2]
             ci == container_idx_for_id(ws, ws.maximized_window_restore_idx[3])
             cleared == [ws EXCEPT !.maximized_window = NoWindow,
                                   !.maximized_window_restore_idx = NoRestore]
         IN  IF ci = NoIdx THEN Ok(new_container_for_window(cleared, id, h))
             ELSE IF widx > RLen(RGet(ws.containers, ci).windows) THEN Panic(ws)
             ELSE Ok(SetContainer(cleared, ci,
                        [RGet(ws.containers, ci) EXCEPT
                            !.windows = RingInsert(@, widx, h)]))

\* Workspace::update, as far as the hidden registry sees it: nothing when
\* tile is off; the maximized window is maximized; a monocle container is
\* only positioned; otherwise each container's focused window is positioned
\* and its other windows hidden, and every floating window is restored
RECURSIVE HideUnfocusedFrom(_, _, _)
HideUnfocusedFrom(cs, hidden, k) ==
    IF k > Len(cs) THEN hidden
    ELSE LET c == cs[k]
             others == SelectSeq(c.windows.elements,
                                 LAMBDA h : h # focused_window(c))
         IN  HideUnfocusedFrom(cs, HideAll(hidden, others), k + 1)
UpdateHidden(ws, hidden) ==
    IF ~ws.tile THEN hidden
    ELSE IF ws.maximized_window # NoWindow THEN maximize(hidden, ws.maximized_window)
    ELSE IF ws.monocle_container # NoContainer THEN hidden
    ELSE RestoreAll(HideUnfocusedFrom(ws.containers.elements, hidden, 1),
                    ws.floating_windows)
\* the layout engine gets one resize slot per container: the list is cut or
\* padded with None to the number of containers
SlotsFor(slots, n) ==
    [k \in 1 .. n |-> IF k <= Len(slots) THEN slots[k] ELSE NoResize]
UpdateSlots(ws) ==
    [ws EXCEPT !.resize_dimensions = SlotsFor(@, RLen(ws.containers))]

\* ------------------------------------------------------------- Monitor (4.5)
Monitor(workspaces) == [workspaces |-> workspaces]
focused_workspace_idx(m) == m.workspaces.focused
HasFocusedWorkspace(m) == RHas(m.workspaces, m.workspaces.focused)
MonitorFocusedWorkspace(m) == RGet(m.workspaces, m.workspaces.focused)
SetWorkspace(m, j, ws) == [m EXCEPT !.workspaces = RingSet(@, j, ws)]
\* ensure_workspace_count(n): append default workspaces while len < n
RECURSIVE ensure_workspace_count(_, _)
ensure_workspace_count(m, n) ==
    IF RLen(m.workspaces) >= n THEN m
    ELSE ensure_workspace_count(
             [m EXCEPT !.workspaces = RingPushBack(@, DefaultWorkspace)], n)
new_workspace_idx(m) == RLen(m.workspaces)
\* Monitor::add_container: add to the focused workspace's containers
MonitorAddContainer(m, c) ==
    IF ~HasFocusedWorkspace(m) THEN Err(m)
    ELSE Ok(SetWorkspace(m, focused_workspace_idx(m),
                         add_container(MonitorFocusedWorkspace(m), c)))
\* Monitor::move_container_to_workspace(target_idx, follow)
MonitorMoveContainerToWorkspace(m, target_idx, follow) ==
    IF ~HasFocusedWorkspace(m) \/ ~HasFocusedContainer(MonitorFocusedWorkspace(m))
    THEN Err(m)
    ELSE LET j == focused_workspace_idx(m)
             c == focused_container(MonitorFocusedWorkspace(m))
             taken == SetWorkspace(m, j,
                          remove_focused_container(MonitorFocusedWorkspace(m)))
             grown == ensure_workspace_count(taken, target_idx + 1)
             put == SetWorkspace(grown, target_idx,
                        add_container(RGet(grown.workspaces, target_idx), c))
         IN  Ok(IF follow
                THEN [put EXCEPT !.workspaces = RingFocus(@, target_idx)]
                ELSE put)
\* load_focused_workspace: load_focused_window on every container of the
\* focused workspace, hide all windows of every other workspace
RECURSIVE LoadContainersFrom(_, _, _)
LoadContainersFrom(cs, hidden, k) ==
    IF k > Len(cs) THEN hidden
    ELSE LoadContainersFrom(cs, load_focused_window(cs[k], hidden), k + 1)
RECURSIVE LoadWorkspacesFrom(_, _, _)
LoadWorkspacesFrom(m, hidden, j) ==
    IF j >= RLen(m.workspaces) THEN hidden
    ELSE LET ws == RGet(m.workspaces, j) IN
         LoadWorkspacesFrom(m,
             IF j = focused_workspace_idx(m)
             THEN LoadContainersFrom(ws.containers.elements, hidden, 1)
             ELSE HideAll(hidden, AllWindows(ws)),
             j + 1)
load_focused_workspace(m, hidden) == LoadWorkspacesFrom(m, hidden, 0)
\* Monitor::update_focused_workspace: load_focused_workspace, then
\* Workspace::update on the focused workspace
MonitorUpdateHidden(m, hidden) ==
    IF ~HasFocusedWorkspace(m) THEN hidden
    ELSE UpdateHidden(MonitorFocusedWorkspace(m), load_focused_workspace(m, hidden))
MonitorUpdateSlots(m) ==
    IF ~HasFocusedWorkspace(m) THEN m
    ELSE SetWorkspace(m, focused_workspace_idx(m),
                      UpdateSlots(MonitorFocusedWorkspace(m)))
\* Monitor::focus_workspace(i): make sure workspace i exists, focus it
MonitorFocusWorkspace(m, i) ==
    [ensure_workspace_count(m, i + 1) EXCEPT !.workspaces = RingFocus(@, i)]

\* ------------------------------------------------------------- directions (4.4, 4.7)
Directions == {"Left", "Right", "Up", "Down"}
opposite(d) ==
    CASE d = "Left" -> "Right" [] d = "Right" -> "Left"
      [] d = "Up" -> "Down" [] d = "Down" -> "Up"
\* the direction as seen on the unflipped layout
flip_direction(d, flip) ==
    CASE flip = "None" -> d
      [] flip = "Horizontal" -> IF d \in {"Left", "Right"} THEN opposite(d) ELSE d
      [] flip = "Vertical" -> IF d \in {"Up", "Down"} THEN opposite(d) ELSE d
      [] flip = "HorizontalAndVertical" -> opposite(d)
\* whether container idx of len has a geometric neighbour in the direction:
\* BSP bisects alternately (0 is the left half, 1 the top of the right half,
\* 2 the left of what remains, ...), Columns are vertical strips, Rows
\* horizontal ones, where the neighbours are the strips before and after
is_valid(d, layout, flip, idx, len) ==
    LET dir == flip_direction(d, flip) IN
    CASE dir = "Up" ->
           (CASE layout = "BSP" -> len > 2 /\ idx # 0 /\ idx # 1
              [] layout = "Columns" -> FALSE
              [] layout = "Rows" -> idx # 0)
      [] dir = "Down" ->
           (CASE layout = "BSP" -> len > 2 /\ idx # len - 1 /\ idx % 2 # 0
              [] layout = "Columns" -> FALSE
              [] layout = "Rows" -> idx < len - 1)
      [] dir = "Left" ->
           (CASE layout = "BSP" -> len > 1 /\ idx # 0
              [] layout = "Columns" -> idx # 0
              [] layout = "Rows" -> FALSE)
      [] dir = "Right" ->
           (CASE layout = "BSP" -> len > 1 /\ idx % 2 = 0 /\ idx # len - 1
              [] layout = "Columns" -> idx < len - 1
              [] layout = "Rows" -> FALSE)
new_idx(d, layout, flip, idx) ==
    LET dir == flip_direction(d, flip) IN
    CASE dir = "Up" ->
           (IF layout = "BSP" THEN (IF idx % 2 = 0 THEN idx - 1 ELSE idx - 2)
            ELSE idx - 1)
      [] dir = "Down" -> idx + 1
      [] dir = "Left" ->
           (IF layout = "BSP" THEN (IF idx % 2 = 0 THEN idx - 2 ELSE idx - 1)
            ELSE idx - 1)
      [] dir = "Right" -> idx + 1
\* new_idx_for_direction: the neighbour's index, NoIdx when there is none
new_idx_for_direction(ws, d) ==
    IF is_valid(d, ws.layout, ws.layout_flip, focused_container_idx(ws),
                RLen(ws.containers))
    THEN new_idx(d, ws.layout, ws.layout_flip, focused_container_idx(ws))
    ELSE NoIdx
\* CycleDirection::next_idx, with wrap-around
next_idx(dir, idx, len) ==
    IF dir = "Previous" THEN (IF idx = 0 THEN len - 1 ELSE idx - 1)
    ELSE (IF idx = len - 1 THEN 0 ELSE idx + 1)

\* ------------------------------------------------------------- layout engine (4.7)
\* a Rect is <<left, top, right, bottom>>, right and bottom being the width
\* and the height; a resize delta is a Rect of signed offsets per edge
Rect(left, top, right, bottom) == <<left, top, right, bottom>>
\* the work area of every monitor
WorkArea == Rect(0, 0, 1920, 1080)
Flips == {"Horizontal", "Vertical", "HorizontalAndVertical"}
\* BSP: recursive bisection alternating vertical and horizontal cuts; the
\* first rectangle takes the left (top) half, the rest share the other half
RECURSIVE Bisect(_, _, _)
Bisect(area, n, vertical) ==
    IF n <= 1 THEN <<area>>
    ELSE IF vertical
    THEN LET half == area[3] \div 2 IN
         <<Rect(area[1], area[2], half, area[4])>>
             \o Bisect(Rect(area[1] + half, area[2], area[3] - half, area[4]),
                       n - 1, FALSE)
    ELSE LET half == area[4] \div 2 IN
         <<Rect(area[1], area[2], area[3], half)>>
             \o Bisect(Rect(area[1], area[2] + half, area[3], area[4] - half),
                       n - 1, TRUE)
\* the delta of a resize slot is added to the rectangle edge by edge
AddDelta(rect, delta) ==
    IF delta = NoResize THEN rect ELSE [k \in 1 .. 4 |-> rect[k] + delta[k]]
\* a flip reflects the rectangle across the midline(s) of the work area
Reflect(area, rect, flip) ==
    LET left == IF flip \in {"Horizontal", "HorizontalAndVertical"}
                THEN 2 * area[1] + area[3] - rect[1] - rect[3] ELSE rect[1]
        top == IF flip \in {"Vertical", "HorizontalAndVertical"}
               THEN 2 * area[2] + area[4] - rect[2] - rect[4] ELSE rect[2]
    IN  Rect(left, top, rect[3], rect[4])
\* the layouts a workspace can be given
Layouts == {"BSP", "Columns", "Rows"}
\* Columns: n equal vertical strips; Rows: n equal horizontal strips
Strips(area, n, vertical) ==
    [k \in 1 .. n |->
        IF vertical
        THEN Rect(area[1] + (k - 1) * (area[3] \div n), area[2], area[3] \div n, area[4])
        ELSE Rect(area[1], area[2] + (k - 1) * (area[4] \div n), area[3], area[4] \div n)]
\* calculate(work_area, n, flip, resize_dimensions) of a layout with no
\* paddings: n rectangles; under BSP the deltas are added before the flip; the
\* flip is applied last
calculate(layout, work_area, n, flip, resize_dimensions) ==
    [k \in 1 .. n |->
        Reflect(work_area,
                CASE layout = "BSP" ->
                       AddDelta(Bisect(work_area, n, TRUE)[k],
                                IF k <= Len(resize_dimensions)
                                THEN resize_dimensions[k] ELSE NoResize)
                  [] layout = "Columns" -> Strips(work_area, n, TRUE)[k]
                  [] layout = "Rows" -> Strips(work_area, n, FALSE)[k],
                flip)]
\* Option<i32>::None for the step, and the step the layout then uses
NoStep == 0
DefaultStep == 50
\* resize(reference, current_delta, direction, sizing, step): the delta with
\* the edge of the direction moved outwards (Increase) or inwards (Decrease)
\* by step pixels
layout_resize(reference, current_delta, direction, sizing, step) ==
    LET r == IF current_delta = NoResize THEN Rect(0, 0, 0, 0) ELSE current_delta
        s == IF step = NoStep THEN DefaultStep ELSE step
        by == IF sizing = "Increase" THEN s ELSE 0 - s
    IN  CASE direction = "Left" -> [r EXCEPT ![1] = @ - by]
          [] direction = "Up" -> [r EXCEPT ![2] = @ - by]
          [] direction = "Right" -> [r EXCEPT ![3] = @ + by]
          [] direction = "Down" -> [r EXCEPT ![4] = @ + by]

\* ------------------------------------------------------------- WindowManager
\* the manager's hierarchy and the process-wide HIDDEN_HWNDS
W(mons, hidden) == [monitors |-> mons, hidden |-> hidden]
focused_monitor_idx(w) == w.monitors.focused
HasFocusedMonitor(w) == RHas(w.monitors, w.monitors.focused)
focused_monitor(w) == RGet(w.monitors, w.monitors.focused)
HasWorkspace(w, i, j) ==
    RHas(w.monitors, i) /\ RHas(RGet(w.monitors, i).workspaces, j)
WorkspaceAt(w, i, j) == RGet(RGet(w.monitors, i).workspaces, j)
SetMonitor(w, i, m) == [w EXCEPT !.monitors = RingSet(@, i, m)]
SetWorkspaceAt(w, i, j, ws) ==
    SetMonitor(w, i, SetWorkspace(RGet(w.monitors, i), j, ws))
\* WindowManager::focused_workspace
HasFocusedWs(w) == HasFocusedMonitor(w) /\ HasFocusedWorkspace(focused_monitor(w))
focused_workspace(w) == MonitorFocusedWorkspace(focused_monitor(w))
SetFocusedWorkspace(w, ws) ==
    SetWorkspaceAt(w, focused_monitor_idx(w),
                   focused_workspace_idx(focused_monitor(w)), ws)
\* the workspaces of all monitors, monitor by monitor
RECURSIVE WorkspacesFrom(_, _)
WorkspacesFrom(ms, i) ==
    IF i > Len(ms) THEN <<>>
    ELSE ms[i].workspaces.elements \o WorkspacesFrom(ms, i + 1)
MonitorWorkspaces(w) == WorkspacesFrom(w.monitors.elements, 1)
\* every (monitor, workspace) index pair of the hierarchy
Places(w) ==
    {<<i, j>> \in (0 .. RLen(w.monitors) - 1) \X (0 .. MaxWorkspaces) :
        HasWorkspace(w, i, j)}
\* container ids in use: nanoid never repeats an id, so a fresh id differs
\* from every id the hierarchy still remembers
UsedIds(w) ==
    UNION {{c.id : c \in Range(WorkspaceAt(w, p[1], p[2]).containers.elements)}
             \cup {WorkspaceAt(w, p[1], p[2]).monocle_container.id}
             \cup {WorkspaceAt(w, p[1], p[2]).maximized_window_restore_idx[3]}
           : p \in Places(w)}
FreshId(w) == CHOOSE n \in 1 .. Cardinality(UsedIds(w)) + 1 :
                 /\ n \notin UsedIds(w)
                 /\ \A k \in 1 .. n - 1 : k \in UsedIds(w)

\* update_focused_workspace: Monitor::update_focused_workspace on the focused
\* monitor; with mouse_follows_focus the focused workspace is then asked for,
\* which is an error when the monitor has none (the focus given is an OS call)
update_focused_workspace(w, mouse_follows_focus) ==
    IF ~HasFocusedMonitor(w) THEN Err(w)
    ELSE LET updated ==
                 [w EXCEPT
                     !.hidden = MonitorUpdateHidden(focused_monitor(w), @),
                     !.monitors = RingSet(@, focused_monitor_idx(w),
                                          MonitorUpdateSlots(focused_monitor(w)))]
         IN  IF mouse_follows_focus /\ ~HasFocusedWs(updated) THEN Err(updated)
             ELSE Ok(updated)
\* the OS focus calls update_focused_workspace can end with: none, Window::focus
\* on a window (attach to its thread, raise, centre the cursor), or
\* set_foreground_window on the desktop window without attaching
NoFocus == [target |-> "none", hwnd |-> NoWindow, attach |-> FALSE]
WindowFocus(h) == [target |-> "window", hwnd |-> h, attach |-> TRUE]
DesktopFocus == [target |-> "desktop", hwnd |-> NoWindow, attach |-> FALSE]
\* update_focused_workspace, mouse_follows_focus: the window that gets the
\* focus on workspace ws
FocusTarget(ws) ==
    IF ws.maximized_window # NoWindow THEN WindowFocus(ws.maximized_window)
    ELSE IF ws.monocle_container # NoContainer
    THEN (IF focused_window(ws.monocle_container) # NoWindow
          THEN WindowFocus(focused_window(ws.monocle_container))
          ELSE NoFocus)
    ELSE IF HasFocusedContainer(ws) /\ focused_window(focused_container(ws)) # NoWindow
    THEN WindowFocus(focused_window(focused_container(ws)))
    ELSE DesktopFocus
\* the focus call of update_focused_workspace(mouse_follows_focus), made after
\* the focused monitor has re-projected its workspace
FocusGiven(w, mouse_follows_focus) ==
    IF update_focused_workspace(w, mouse_follows_focus).st # "ok"
       \/ ~mouse_follows_focus
    THEN NoFocus
    ELSE FocusTarget(focused_workspace(
                         update_focused_workspace(w, mouse_follows_focus).v))
\* applies f's result to the rest of a reducer only when it is "ok"
ThenUpdate(r, mouse_follows_focus) ==
    IF r.st # "ok" THEN r ELSE update_focused_workspace(r.v, mouse_follows_focus)
\* lifts a workspace operation's result to the focused workspace
OnFocused(w, r) == Res(r.st, SetFocusedWorkspace(w, r.v))

\* ------------------------------------------------------------- workspace rules
\* the attribute reads of window.rs, as the OS answers them for each handle
\* what the OS reports for a handle: window 1 is a notepad, window 2 is Steam
Exe(h) == IF h = 1 THEN "notepad.exe" ELSE IF h = 2 THEN "steam.exe" ELSE "explorer.exe"
Title(h) == IF h = 2 THEN "Steam" ELSE "Untitled"
NoRule == <<NoIdx, NoIdx>>
\* WORKSPACE_RULES.get(exe), then on a miss .get(title)
RuleFor(rules, h) ==
    IF Exe(h) \in DOMAIN rules THEN rules[Exe(h)]
    ELSE IF Title(h) \in DOMAIN rules THEN rules[Title(h)]
    ELSE NoRule
EnforceWorkspaceRuleOp(h, i, j, t) ==
    [hwnd |-> h, origin_monitor_idx |-> i, origin_workspace_idx |-> j,
     target_monitor_idx |-> t[1], target_workspace_idx |-> t[2]]
is_origin(op, monitor_idx, workspace_idx) ==
    op.origin_monitor_idx = monitor_idx /\ op.origin_workspace_idx = workspace_idx
\* a target test that forgets the workspace index
IsTargetMonitorOnly(op, monitor_idx, workspace_idx) ==
    op.target_monitor_idx = monitor_idx
is_target(op, monitor_idx, workspace_idx) ==
    op.target_monitor_idx = monitor_idx /\ op.target_workspace_idx = workspace_idx
is_enforced(op) ==
    /\ op.origin_monitor_idx = op.target_monitor_idx
    /\ op.origin_workspace_idx = op.target_workspace_idx
\* the first loop: one op per visible window with a rule, in monitor,
\* workspace, container order
RECURSIVE OpsFrom(_, _, _, _, _)
OpsFrom(w, rules, i, j, k) ==
    IF i >= RLen(w.monitors) THEN <<>>
    ELSE IF j >= RLen(RGet(w.monitors, i).workspaces) THEN OpsFrom(w, rules, i + 1, 0, 0)
    ELSE IF k >= RLen(WorkspaceAt(w, i, j).containers) THEN OpsFrom(w, rules, i, j + 1, 0)
    ELSE LET h == At(visible_windows(WorkspaceAt(w, i, j)), k) IN
         (IF h # NoWindow /\ RuleFor(rules, h) # NoRule
          THEN <<EnforceWorkspaceRuleOp(h, i, j, RuleFor(rules, h))>>
          ELSE <<>>) \o OpsFrom(w, rules, i, j, k + 1)
\* the ops without the first retain call
ToMoveTargetFocusedKept(w, rules) ==
    SelectSeq(OpsFrom(w, rules, 0, 0, 0), LAMBDA op : ~is_enforced(op))
\* the two retain calls
ToMove(w, rules) ==
    LET fm == focused_monitor_idx(w)
        fw == focused_workspace_idx(focused_monitor(w))
        not_focused == SelectSeq(OpsFrom(w, rules, 0, 0, 0),
                                 LAMBDA op : ~is_target(op, fm, fw))
    IN  SelectSeq(not_focused, LAMBDA op : ~is_enforced(op))
\* a removing loop that hides the windows and forgets to remove them
RemovePassKeepsWindow(w, ops, fm, fw) ==
    Ok([w EXCEPT !.hidden =
           HideAll(@, SelectSeq([k \in 1 .. Len(ops) |->
                                    IF is_origin(ops[k], fm, fw) THEN ops[k].hwnd
                                    ELSE NoWindow],
                                LAMBDA h : h # NoWindow))])
\* the removing loop: hide a window that leaves the focused workspace, then
\* remove it from its origin workspace
RECURSIVE RemovePass(_, _, _, _)
RemovePass(w, ops, fm, fw) ==
    IF ops = <<>> THEN Ok(w)
    ELSE LET op == Head(ops) IN
         IF ~HasWorkspace(w, op.origin_monitor_idx, op.origin_workspace_idx)
         THEN Err(w)
         ELSE LET hid == IF is_origin(op, fm, fw)
                         THEN [w EXCEPT !.hidden = hide(@, op.hwnd)]
                         ELSE w
                  r == remove_window(WorkspaceAt(w, op.origin_monitor_idx,
                                                 op.origin_workspace_idx), op.hwnd)
              IN  IF r.st # "ok" THEN Res(r.st, hid)
                  ELSE RemovePass(SetWorkspaceAt(hid, op.origin_monitor_idx,
                                                 op.origin_workspace_idx, r.v),
                                  Tail(ops), fm, fw)
\* the inserting loop: make sure the target workspace exists, then give the
\* window a new container there
RECURSIVE InsertPass(_, _)
InsertPass(w, ops) ==
    IF ops = <<>> THEN Ok(w)
    ELSE LET op == Head(ops) IN
         IF ~RHas(w.monitors, op.target_monitor_idx) THEN Err(w)
         ELSE LET grown == SetMonitor(w, op.target_monitor_idx,
                               ensure_workspace_count(
                                   RGet(w.monitors, op.target_monitor_idx),
                                   op.target_workspace_idx + 1))
                  placed == new_container_for_window(
                                WorkspaceAt(grown, op.target_monitor_idx,
                                            op.target_workspace_idx),
                                FreshId(grown), op.hwnd)
              IN  InsertPass(SetWorkspaceAt(grown, op.target_monitor_idx,
                                            op.target_workspace_idx, placed),
                             Tail(ops))
enforce_workspace_rules(w, rules) ==
    IF ~HasFocusedMonitor(w) THEN Err(w)
    ELSE LET fm == focused_monitor_idx(w)
             fw == focused_workspace_idx(focused_monitor(w))
             to_move == ToMove(w, rules)
             should_update_focused_workspace ==
                 \E k \in 1 .. Len(to_move) : is_origin(to_move[k], fm, fw)
             removed == RemovePass(w, to_move, fm, fw)
             inserted == IF removed.st # "ok" THEN removed
                         ELSE InsertPass(removed.v, to_move)
         IN  IF inserted.st = "ok" /\ should_update_focused_workspace
             THEN update_focused_workspace(inserted.v, FALSE)
             ELSE inserted

\* ------------------------------------------------------------- reducers
\* WindowManager::focus_monitor: only an index naming a monitor is focused
focus_monitor(w, idx) ==
    IF RHas(w.monitors, idx) THEN Ok([w EXCEPT !.monitors = RingFocus(@, idx)])
    ELSE Err(w)
\* a move that never looks at the maximized window
IsMaximizedIgnored(ws) == FALSE
\* move_container_to_monitor: the workspace holds a natively maximized window
IsMaximized(ws) == ws.maximized_window # NoWindow
\* a move that focuses the target monitor whatever follow says
FollowAlways(w, idx, follow) == focus_monitor(w, idx)
\* move_container_to_monitor: focus the target monitor when asked to follow
Follow(w, idx, follow) == IF follow THEN focus_monitor(w, idx) ELSE Ok(w)
\* move_container_to_monitor: the focused container is taken out of its
\* workspace, then the target monitor is looked up and given the container
move_container_to_monitor(w, idx, follow) ==
    IF ~HasFocusedWs(w) THEN Err(w)
    ELSE IF IsMaximized(focused_workspace(w)) THEN Err(w)
    ELSE IF ~HasFocusedContainer(focused_workspace(w)) THEN Err(w)
    ELSE LET container == focused_container(focused_workspace(w))
             taken == SetFocusedWorkspace(w,
                          remove_focused_container(focused_workspace(w)))
         IN  IF ~RHas(taken.monitors, idx) THEN Err(taken)
             ELSE LET added == MonitorAddContainer(RGet(taken.monitors, idx),
                                                   container)
                  IN  IF added.st # "ok" THEN Err(taken)
                      ELSE LET put == SetMonitor(taken, idx, added.v)
                               loaded == [put EXCEPT !.hidden =
                                             load_focused_workspace(added.v, @)]
                               followed == Follow(loaded, idx, follow)
                           IN  ThenUpdate(followed, TRUE)
move_container_to_workspace(w, idx, follow) ==
    IF ~HasFocusedMonitor(w) THEN Err(w)
    ELSE LET fm == focused_monitor_idx(w)
             r == MonitorMoveContainerToWorkspace(focused_monitor(w), idx, follow)
         IN  IF r.st # "ok" THEN Res(r.st, SetMonitor(w, fm, r.v))
             ELSE ThenUpdate(
                      Ok([SetMonitor(w, fm, r.v) EXCEPT
                             !.hidden = load_focused_workspace(r.v, @)]), TRUE)
focus_container_in_direction(w, direction) ==
    IF ~HasFocusedWs(w) THEN Err(w)
    ELSE LET ws == focused_workspace(w)
             idx == new_idx_for_direction(ws, direction)
         IN  IF idx = NoIdx THEN Err(w)
             ELSE LET focused == focus_container(ws, idx) IN
                  Res(IF HasFocusedContainer(focused)
                         /\ focused_window(focused_container(focused)) # NoWindow
                      THEN "ok" ELSE "err",
                      SetFocusedWorkspace(w, focused))
\* a move that swaps the containers and focuses the index it came from
MoveContainerFocusLeftBehind(w, direction) ==
    IF ~HasFocusedWs(w) THEN Err(w)
    ELSE LET ws == focused_workspace(w)
             current_idx == focused_container_idx(ws)
             idx == new_idx_for_direction(ws, direction)
         IN  IF idx = NoIdx THEN Err(w)
             ELSE ThenUpdate(
                      Ok(SetFocusedWorkspace(w,
                             focus_container(swap_containers(ws, current_idx, idx),
                                             current_idx))), TRUE)
\* move_container_in_direction: swap the focused container with its neighbour
\* and focus the neighbour's index
move_container_in_direction(w, direction) ==
    IF ~HasFocusedWs(w) THEN Err(w)
    ELSE LET ws == focused_workspace(w)
             current_idx == focused_container_idx(ws)
             idx == new_idx_for_direction(ws, direction)
         IN  IF idx = NoIdx THEN Err(w)
             ELSE ThenUpdate(
                      Ok(SetFocusedWorkspace(w,
                             focus_container(swap_containers(ws, current_idx, idx),
                                             idx))), TRUE)
\* cycle_container_window_in_direction: focus the next or previous window of
\* the focused container, load it, re-project
cycle_container_window_in_direction(w, direction) ==
    IF ~HasFocusedWs(w) \/ ~HasFocusedContainer(focused_workspace(w)) THEN Err(w)
    ELSE LET ws == focused_workspace(w)
             container == focused_container(ws)
         IN  IF RLen(container.windows) = 1 THEN Err(w)
             ELSE LET cycled == focus_window(container,
                                    next_idx(direction, focused_window_idx(container),
                                             RLen(container.windows)))
                      set == SetFocusedWorkspace(w,
                                 SetContainer(ws, focused_container_idx(ws), cycled))
                  IN  ThenUpdate(
                          Ok([set EXCEPT !.hidden = load_focused_window(cycled, @)]),
                          TRUE)
add_window_to_container(w, direction) ==
    IF ~HasFocusedWs(w) THEN Err(w)
    ELSE LET ws == focused_workspace(w)
             current_container_idx == focused_container_idx(ws)
         IN  IF ~is_valid(direction, ws.layout, ws.layout_flip,
                          current_container_idx, RLen(ws.containers))
             THEN Ok(w)
             ELSE LET idx == new_idx_for_direction(ws, direction)
                      adjusted_new_index ==
                          IF idx > current_container_idx THEN idx - 1 ELSE idx
                  IN  IF idx = NoIdx THEN Err(w)
                      ELSE ThenUpdate(
                               OnFocused(w, move_window_to_container(
                                                ws, adjusted_new_index)), TRUE)
promote_container_to_front(w) ==
    IF ~HasFocusedWs(w) THEN Err(w)
    ELSE ThenUpdate(OnFocused(w, promote_container(focused_workspace(w))), TRUE)
\* remove_window_from_container: the focused container holds one window
IsSingleWindow(c) == RLen(c.windows) = 1
remove_window_from_container(w) ==
    IF ~HasFocusedWs(w) \/ ~HasFocusedContainer(focused_workspace(w)) THEN Err(w)
    ELSE IF IsSingleWindow(focused_container(focused_workspace(w))) THEN Err(w)
    ELSE ThenUpdate(
             OnFocused(w, new_container_for_focused_window(focused_workspace(w),
                                                           FreshId(w))), TRUE)
\* float_window: new_floating_window, then centre and focus the floated window
float_window(w) ==
    IF ~HasFocusedWs(w) THEN Err(w)
    ELSE OnFocused(w, new_floating_window(focused_workspace(w)))
unfloat_window(w, fg) ==
    IF ~HasFocusedWs(w) THEN Err(w)
    ELSE OnFocused(w, new_container_for_floating_window(focused_workspace(w),
                                                        FreshId(w), fg))
\* toggle_float: fg is the answer of WindowsApi::foreground_window, NoWindow
\* when the OS names no window and the query fails
toggle_float(w, fg) ==
    IF fg = NoWindow THEN Err(w)
    ELSE IF ~HasFocusedWs(w) THEN Err(w)
    ELSE LET is_floating_window ==
                 fg \in Range(focused_workspace(w).floating_windows)
         IN  ThenUpdate(IF is_floating_window THEN unfloat_window(w, fg)
                        ELSE float_window(w),
                        is_floating_window)
monocle_on(w) == OnFocused(w, new_monocle_container(focused_workspace(w)))
monocle_off(w) == OnFocused(w, reintegrate_monocle_container(focused_workspace(w)))
\* a toggle that turns monocle on whatever the workspace holds
ToggleMonocleAlwaysOn(w) ==
    IF ~HasFocusedWs(w) THEN Err(w) ELSE ThenUpdate(monocle_on(w), FALSE)
\* toggle_monocle: monocle_on without a monocle container, monocle_off with
\* one, then re-project
toggle_monocle(w) ==
    IF ~HasFocusedWs(w) THEN Err(w)
    ELSE ThenUpdate(IF focused_workspace(w).monocle_container = NoContainer
                    THEN monocle_on(w) ELSE monocle_off(w), FALSE)
maximize_window(w) == OnFocused(w, new_maximized_window(focused_workspace(w)))
unmaximize_window(w) ==
    OnFocused(w, reintegrate_maximized_window(focused_workspace(w), FreshId(w)))
toggle_maximize(w) ==
    IF ~HasFocusedWs(w) THEN Err(w)
    ELSE ThenUpdate(IF focused_workspace(w).maximized_window = NoWindow
                    THEN maximize_window(w) ELSE unmaximize_window(w), FALSE)
focus_workspace(w, idx) ==
    IF ~HasFocusedMonitor(w) THEN Err(w)
    ELSE LET m == MonitorFocusWorkspace(focused_monitor(w), idx) IN
         ThenUpdate(Ok([SetMonitor(w, focused_monitor_idx(w), m) EXCEPT
                           !.hidden = load_focused_workspace(m, @)]), TRUE)
new_workspace(w) ==
    IF ~HasFocusedMonitor(w) THEN Err(w)
    ELSE focus_workspace(w, new_workspace_idx(focused_monitor(w)))
\* an ensure_workspaces_for_monitor that answers Ok for an index naming no
\* monitor
EnsureWorkspacesForMonitorSilent(w, monitor_idx, workspace_count) ==
    IF ~RHas(w.monitors, monitor_idx) THEN Ok(w)
    ELSE Ok(SetMonitor(w, monitor_idx,
                ensure_workspace_count(RGet(w.monitors, monitor_idx),
                                       workspace_count)))
\* ensure_workspaces_for_monitor: look the monitor up, then
\* Monitor::ensure_workspace_count
ensure_workspaces_for_monitor(w, monitor_idx, workspace_count) ==
    IF ~RHas(w.monitors, monitor_idx) THEN Err(w)
    ELSE Ok(SetMonitor(w, monitor_idx,
                ensure_workspace_count(RGet(w.monitors, monitor_idx),
                                       workspace_count)))
\* a flip_layout that overwrites the flip with its argument
FlipLayoutOverwrite(current, layout_flip) == layout_flip
\* the flip that flip_layout sets, from the current one and its argument
FlipLayoutTable(current, layout_flip) ==
    CASE current = "None" -> layout_flip
      [] current = "Horizontal" ->
           (CASE layout_flip = "Horizontal" -> "None"
              [] layout_flip = "Vertical" -> "HorizontalAndVertical"
              [] layout_flip = "HorizontalAndVertical" -> "HorizontalAndVertical")
      [] current = "Vertical" ->
           (CASE layout_flip = "Horizontal" -> "HorizontalAndVertical"
              [] layout_flip = "Vertical" -> "None"
              [] layout_flip = "HorizontalAndVertical" -> "HorizontalAndVertical")
      [] current = "HorizontalAndVertical" ->
           (CASE layout_flip = "Horizontal" -> "Vertical"
              [] layout_flip = "Vertical" -> "Horizontal"
              [] layout_flip = "HorizontalAndVertical" -> "None")
\* flip_layout: set the flip of the focused workspace, then re-project
flip_layout(w, layout_flip) ==
    IF ~HasFocusedWs(w) THEN Err(w)
    ELSE ThenUpdate(
             Ok(SetFocusedWorkspace(w,
                    [focused_workspace(w) EXCEPT
                        !.layout_flip = FlipLayoutTable(@, layout_flip)])),
             FALSE)
\* a resize that hands the requested direction on whatever the flip is
ResizeDirectionKept(direction, flip) == direction
\* resize_window: the direction as it is handed to the layout's resize
ResizeDirection(direction, flip) ==
    CASE flip = "None" -> direction
      [] flip = "Horizontal" ->
           IF direction = "Left" \/ direction = "Right" THEN opposite(direction)
           ELSE direction
      [] flip = "Vertical" ->
           IF direction = "Up" \/ direction = "Down" THEN opposite(direction)
           ELSE direction
      [] flip = "HorizontalAndVertical" -> opposite(direction)
\* resize_window: the layout rectangles it takes its reference from
Unaltered(ws) ==
    calculate(ws.layout, WorkArea, RLen(ws.containers), ws.layout_flip, <<>>)
\* resize_window: the arguments of its layout.resize call
ResizeCall(ws, direction, sizing, step) ==
    [reference |-> At(Unaltered(ws), focused_container_idx(ws)),
     current_delta |-> At(ws.resize_dimensions, focused_container_idx(ws)),
     direction |-> ResizeDirection(direction, ws.layout_flip),
     sizing |-> sizing,
     step |-> step]
resize_window(w, direction, sizing, step) ==
    IF ~HasFocusedWs(w) THEN Err(w)
    ELSE LET ws == focused_workspace(w)
             len == RLen(ws.containers)
             focused_idx == focused_container_idx(ws)
         IN  IF ~Has(ws.resize_dimensions, focused_idx) THEN Err(w)
             ELSE IF ~is_valid(direction, ws.layout, ws.layout_flip, focused_idx, len)
             THEN Ok(w)
             ELSE IF len = 0 \/ ~Has(Unaltered(ws), focused_idx) THEN Err(w)
             ELSE LET call == ResizeCall(ws, direction, sizing, step)
                      resize == layout_resize(call.reference, call.current_delta,
                                              call.direction, call.sizing, call.step)
                  IN  ThenUpdate(
                          Ok(SetFocusedWorkspace(w,
                                 [ws EXCEPT !.resize_dimensions =
                                                SetAt(@, focused_idx, resize)])),
                          FALSE)
\* restore_all_windows: Window::restore on every window of every container of
\* every workspace of every monitor
RECURSIVE RestoreContainersFrom(_, _, _)
RestoreContainersFrom(w, hidden, k) ==
    IF k > Len(MonitorWorkspaces(w)) THEN hidden
    ELSE RestoreContainersFrom(w,
             RestoreAll(hidden, ContainerWindows(MonitorWorkspaces(w)[k])), k + 1)
restore_all_windows(w) ==
    [w EXCEPT !.hidden = RestoreContainersFrom(w, @, 1)]
\* Sizing::adjust_by: Increase adds the adjustment, Decrease subtracts it
adjust_by(sizing, value, adjustment) ==
    IF sizing = "Increase" THEN value + adjustment ELSE value - adjustment
\* adjust_*_padding: the padding is set
HasPadding(padding) == padding # NoPadding
\* adjust_workspace_padding: the workspace padding of the focused workspace is
\* replaced by its adjusted value, then the workspace is re-projected
adjust_workspace_padding(w, sizing, adjustment) ==
    IF ~HasFocusedWs(w) THEN Err(w)
    ELSE LET padding == focused_workspace(w).workspace_padding IN
         IF ~HasPadding(padding) THEN Err(w)
         ELSE ThenUpdate(
                  Ok(SetFocusedWorkspace(w,
                         [focused_workspace(w) EXCEPT
                             !.workspace_padding =
                                 <<adjust_by(sizing, padding[1], adjustment)>>])),
                  FALSE)
\* an adjustment of the container padding that adjusts the workspace padding
AdjustWorkspacePaddingInstead(w, sizing, adjustment) ==
    adjust_workspace_padding(w, sizing, adjustment)
\* adjust_container_padding: the same on the container padding
adjust_container_padding(w, sizing, adjustment) ==
    IF ~HasFocusedWs(w) THEN Err(w)
    ELSE LET padding == focused_workspace(w).container_padding IN
         IF ~HasPadding(padding) THEN Err(w)
         ELSE ThenUpdate(
                  Ok(SetFocusedWorkspace(w,
                         [focused_workspace(w) EXCEPT
                             !.container_padding =
                                 <<adjust_by(sizing, padding[1], adjustment)>>])),
                  FALSE)
\* the setters that name a workspace by (monitor_idx, workspace_idx): an index
\* naming no monitor or no workspace is an error before anything is set
SetOn(w, monitor_idx, workspace_idx, field, value) ==
    SetWorkspaceAt(w, monitor_idx, workspace_idx,
                   [WorkspaceAt(w, monitor_idx, workspace_idx) EXCEPT
                       ![field] = value])
\* set_workspace_padding: Some(size) on the named workspace, then the focused
\* workspace is re-projected
set_workspace_padding(w, monitor_idx, workspace_idx, size) ==
    IF ~HasWorkspace(w, monitor_idx, workspace_idx) THEN Err(w)
    ELSE ThenUpdate(Ok(SetOn(w, monitor_idx, workspace_idx,
                             "workspace_padding", <<size>>)), FALSE)
\* set_container_padding: the same on the container padding
set_container_padding(w, monitor_idx, workspace_idx, size) ==
    IF ~HasWorkspace(w, monitor_idx, workspace_idx) THEN Err(w)
    ELSE ThenUpdate(Ok(SetOn(w, monitor_idx, workspace_idx,
                             "container_padding", <<size>>)), FALSE)
\* toggle_tiling: negate tile on the focused workspace, then re-project
toggle_tiling(w) ==
    IF ~HasFocusedWs(w) THEN Err(w)
    ELSE ThenUpdate(
             Ok(SetFocusedWorkspace(w,
                    [focused_workspace(w) EXCEPT !.tile = ~@])),
             FALSE)
\* set_workspace_tiling: tile on the named workspace, then the focused
\* workspace is re-projected
set_workspace_tiling(w, monitor_idx, workspace_idx, tile) ==
    IF ~HasWorkspace(w, monitor_idx, workspace_idx) THEN Err(w)
    ELSE ThenUpdate(Ok(SetOn(w, monitor_idx, workspace_idx, "tile", tile)), FALSE)
\* change_workspace_layout: the layout of the focused workspace, then
\* re-project
change_workspace_layout(w, layout) ==
    IF ~HasFocusedWs(w) THEN Err(w)
    ELSE ThenUpdate(
             Ok(SetFocusedWorkspace(w,
                    [focused_workspace(w) EXCEPT !.layout = layout])),
             FALSE)
\* set_workspace_layout: the layout of the named workspace; when that is the
\* focused workspace of a monitor that is not the focused one, only
\* Workspace::update runs on it, otherwise the focused workspace is
\* re-projected
set_workspace_layout(w, monitor_idx, workspace_idx, layout) ==
    IF ~HasWorkspace(w, monitor_idx, workspace_idx) THEN Err(w)
    ELSE LET set == SetOn(w, monitor_idx, workspace_idx, "layout", layout)
             ws == WorkspaceAt(set, monitor_idx, workspace_idx)
         IN  IF focused_monitor_idx(w) # monitor_idx
                /\ focused_workspace_idx(RGet(w.monitors, monitor_idx)) = workspace_idx
             THEN Ok([SetWorkspaceAt(set, monitor_idx, workspace_idx, UpdateSlots(ws))
                         EXCEPT !.hidden = UpdateHidden(ws, @)])
             ELSE update_focused_workspace(set, FALSE)
\* a window the classification accepts appears: it gets a new container on
\* the focused workspace, which is then re-projected
ManagedWindows(w) ==
    UNION {Range(AllWindows(WorkspaceAt(w, p[1], p[2]))) : p \in Places(w)}
manage_window(w, h) ==
    IF ~HasFocusedWs(w) THEN Err(w)
    ELSE ThenUpdate(
             Ok(SetFocusedWorkspace(w,
                    new_container_for_window(focused_workspace(w), FreshId(w), h))),
             FALSE)

\* ------------------------------------------------------------- the process
\* no event and no message taken, and no hierarchy seen under the lock
NoEvent == [kind |-> "none", hwnd |-> NoWindow, seq |-> 0]
NoMessage == "none"
NoSeen == W(EmptyRing, <<>>)
Threads == {"event", "command", "signal"}
\* a manager that starts paused
NewPaused(incoming) ==
    [lock |-> FALSE, is_paused |-> TRUE, callback |-> <<>>, incoming |-> incoming,
     socket |-> <<>>,
     pc |-> [event |-> "recv", command |-> "accept", signal |-> "wait",
             requester |-> "idle"],
     event |-> NoEvent, message |-> NoMessage,
     seen |-> [t \in Threads |-> NoSeen],
     pushed |-> 0, sent |-> 0, consumed |-> <<>>,
     bound |-> FALSE, reply |-> "none", exit |-> 0, failed |-> 0,
     result |-> "none"]
\* WindowManager::new behind its mutex, with the threads main starts: the
\* manager is not paused, nothing is queued, no thread holds the lock
new(incoming) ==
    [lock |-> FALSE, is_paused |-> FALSE, callback |-> <<>>, incoming |-> incoming,
     socket |-> <<>>,
     pc |-> [event |-> "recv", command |-> "accept", signal |-> "wait",
             requester |-> "idle"],
     event |-> NoEvent, message |-> NoMessage,
     seen |-> [t \in Threads |-> NoSeen],
     pushed |-> 0, sent |-> 0, consumed |-> <<>>,
     bound |-> FALSE, reply |-> "none", exit |-> 0, failed |-> 0,
     result |-> "none"]
\* a lock that any thread may take at any time
CanLockAlways(p) == TRUE
\* Mutex::lock returns only while no other thread holds the guard
CanLock(p) == ~p.lock
\* thread t takes the lock and sees hierarchy w
Locked(p, t, w, at) ==
    [p EXCEPT !.lock = TRUE, !.pc[t] = at, !.seen[t] = w]
\* thread t drops the guard at the end of its statement
Unlocked(p, t, at) ==
    [p EXCEPT !.lock = FALSE, !.pc[t] = at, !.seen[t] = NoSeen]
\* Sender::send on WINEVENT_CALLBACK_CHANNEL: events are numbered as pushed
Send(p, kind, h) ==
    [p EXCEPT !.callback = Append(@, [kind |-> kind, hwnd |-> h,
                                       seq |-> p.pushed + 1]),
              !.pushed = @ + 1]
\* what the command reducer gets back from process_command
Returned(p, st) == [p EXCEPT !.result = st]
\* a command that returns Ok with nothing sent
ManageFocusedWindowNoSend(p, fg) == Returned(p, "ok")
\* manage_focused_window / unmanage_focused_window: fg is the answer of
\* WindowsApi::foreground_window, NoWindow when the OS names no window. The
\* failed query is returned with nothing sent; otherwise one synthetic event
\* for fg is sent
manage_focused_window(p, fg) ==
    IF fg = NoWindow THEN Returned(p, "err")
    ELSE Returned(Send(p, "Manage", fg), "ok")
unmanage_focused_window(p, fg) ==
    IF fg = NoWindow THEN Returned(p, "err")
    ELSE Returned(Send(p, "Unmanage", fg), "ok")
\* an event reducer that does not look at is_paused
IgnoresNever(paused) == FALSE
\* process_event: while paused every event is dropped
Ignores(paused) == paused
\* process_event on hierarchy w: Show and Manage give an unmanaged window a
\* container, Destroy and Unmanage take the window out of the focused
\* workspace; errors are logged and the loop goes on
process_event(w, paused, e) ==
    IF Ignores(paused) THEN w
    ELSE IF e.kind \in {"Show", "Manage"}
    THEN (IF e.hwnd \in ManagedWindows(w) THEN w ELSE manage_window(w, e.hwnd).v)
    ELSE IF ~HasFocusedWs(w) THEN w
    ELSE ThenUpdate(OnFocused(w, remove_window(focused_workspace(w), e.hwnd)),
                    FALSE).v
\* process_command on the process state p for the messages modelled here; fg
\* is the answer of the OS when asked for the foreground window
process_command(p, m, fg) ==
    CASE m = "TogglePause" -> Returned([p EXCEPT !.is_paused = ~@], "ok")
      [] m = "ManageFocusedWindow" -> manage_focused_window(p, fg)
      [] m = "UnmanageFocusedWindow" -> unmanage_focused_window(p, fg)
      [] m = "State" ->
             IF p.bound THEN Returned([p EXCEPT !.reply = "written"], "ok")
             ELSE Returned([p EXCEPT !.reply = "refused"], "err")

\* ------------------------------------------------------------- state
VARIABLES
    monitors,          \* WindowManager.monitors: Ring<Monitor>
    hidden_hwnds,      \* HIDDEN_HWNDS
    workspace_rules,   \* WORKSPACE_RULES
    last,              \* the Window call that returned last, and its result
    proc               \* threads, lock, channels and sockets of the process
vars == <<monitors, hidden_hwnds, workspace_rules, last, proc>>

World == W(monitors, hidden_hwnds)
Rules == [k \in {"notepad.exe", "Steam"} |->
             IF k = "notepad.exe" THEN <<0, 1>> ELSE <<1, 0>>]

\* no Window call has returned yet
NoCall == [op |-> "none", arg |-> NoWindow, ret |-> NoWindow]
\* WindowManager::new and init: the monitors of the OS, one workspace each
Init ==
    /\ monitors = Ring([i \in 1 .. NumMonitors |->
                           Monitor(Ring(<<DefaultWorkspace>>, 0))], 0)
    /\ hidden_hwnds = <<>>
    /\ workspace_rules = Rules
    /\ last = NoCall
    /\ proc = new(<<>>)

\* cap on the number of workspaces of all monitors together
MaxPlaces == 3
\* a reducer returns: its state is kept, also when it returns an error
Returns(op, r) ==
    /\ r.st # "panic"
    /\ Cardinality(Places(r.v)) <= MaxPlaces
    /\ monitors' = r.v.monitors
    /\ hidden_hwnds' = r.v.hidden
    /\ UNCHANGED <<workspace_rules, last, proc>>

ManageWindow ==
    \E h \in Hwnds \ ManagedWindows(World) :
        Returns("manage_window", manage_window(World, h))
EnforceWorkspaceRules ==
    Returns("enforce_workspace_rules", enforce_workspace_rules(World, workspace_rules))
MoveContainerToMonitor ==
    \E idx \in 0 .. NumMonitors, follow \in BOOLEAN :
        Returns("move_container_to_monitor", move_container_to_monitor(World, idx, follow))
MoveContainerToWorkspace ==
    \E idx \in 0 .. MaxWorkspaces - 1, follow \in BOOLEAN :
        Returns("move_container_to_workspace",
                move_container_to_workspace(World, idx, follow))
FocusContainerInDirection ==
    \E d \in Directions :
        Returns("focus_container_in_direction", focus_container_in_direction(World, d))
MoveContainerInDirection ==
    \E d \in Directions :
        Returns("move_container_in_direction", move_container_in_direction(World, d))
\* cap on the focused window index: cycling forwards from an index past the
\* last window counts up without end
MaxFocus == 3
FocusWithin(w) ==
    \A p \in Places(w) :
        \A c \in Range(WorkspaceAt(w, p[1], p[2]).containers.elements) :
            focused_window_idx(c) <= MaxFocus
CycleContainerWindowInDirection ==
    \E d \in {"Previous", "Next"} :
        /\ FocusWithin(cycle_container_window_in_direction(World, d).v)
        /\ Returns("cycle_container_window_in_direction",
                   cycle_container_window_in_direction(World, d))
AddWindowToContainer ==
    \E d \in Directions :
        Returns("add_window_to_container", add_window_to_container(World, d))
PromoteContainerToFront ==
    Returns("promote_container_to_front", promote_container_to_front(World))
RemoveWindowFromContainer ==
    Returns("remove_window_from_container", remove_window_from_container(World))
ToggleFloat ==
    \E fg \in Hwnds \cup {NoWindow} :
        Returns("toggle_float", toggle_float(World, fg))
ToggleMonocle == Returns("toggle_monocle", toggle_monocle(World))
ToggleMaximize == Returns("toggle_maximize", toggle_maximize(World))
FocusMonitor ==
    \E idx \in 0 .. NumMonitors : Returns("focus_monitor", focus_monitor(World, idx))
FocusWorkspace ==
    \E idx \in 0 .. MaxWorkspaces - 1 :
        Returns("focus_workspace", focus_workspace(World, idx))
NewWorkspace ==
    /\ new_workspace_idx(focused_monitor(World)) < MaxWorkspaces
    /\ Returns("new_workspace", new_workspace(World))
EnsureWorkspacesForMonitor ==
    \E m \in 0 .. NumMonitors, n \in 1 .. MaxWorkspaces :
        Returns("ensure_workspaces_for_monitor",
                ensure_workspaces_for_monitor(World, m, n))

Next ==
    \/ ManageWindow
    \/ EnforceWorkspaceRules
    \/ MoveContainerToMonitor
    \/ MoveContainerToWorkspace
    \/ FocusContainerInDirection
    \/ MoveContainerInDirection
    \/ CycleContainerWindowInDirection
    \/ AddWindowToContainer
    \/ PromoteContainerToFront
    \/ RemoveWindowFromContainer
    \/ ToggleFloat
    \/ ToggleMonocle
    \/ ToggleMaximize
    \/ FocusMonitor
    \/ FocusWorkspace
    \/ NewWorkspace
    \/ EnsureWorkspacesForMonitor

Spec == Init /\ [][Next]_vars

\* ------------------------------------------------------------- hierarchy claims
Workspaces == {WorkspaceAt(World, p[1], p[2]) : p \in Places(World)}
\* the places a handle occupies: <<monitor, workspace, position in AllWindows>>
Locations(h) ==
    {<<p, k>> \in Places(World) \X (1 .. 2 * NumWindows) :
        LET all == AllWindows(WorkspaceAt(World, p[1], p[2]))
        IN  k <= Len(all) /\ all[k] = h}

\* C1 (I4): in every reachable state each window handle appears in at most
\* one place among the containers, the floating windows, the monocle
\* containers and the maximized windows of all workspaces of all monitors
C1_WindowInAtMostOnePlace ==
    \A h \in Hwnds : Cardinality(Locations(h)) <= 1
\* two managed windows, one floating and one maximized
C1_Witness ==
    /\ \A h \in 1 .. 2 : Cardinality(Locations(h)) = 1
    /\ \E ws \in Workspaces : ws.floating_windows # <<>>
    /\ \E ws \in Workspaces : ws.maximized_window # NoWindow

\* C2 (I3): a toggle_monocle or toggle_maximize call on a hierarchy whose
\* workspaces each have at most one of monocle_container and
\* maximized_window set leaves at most one of them set on every workspace
AtMostOneOverlay ==
    \A ws \in Workspaces :
        ~(ws.monocle_container # NoContainer /\ ws.maximized_window # NoWindow)
C2_TogglesKeepOneOverlay ==
    [][(ToggleMonocle \/ ToggleMaximize) /\ AtMostOneOverlay
          => AtMostOneOverlay']_vars

\* C3 (I2): after every reducer returns, every workspace has as many resize
\* slots as containers
C3_SlotPerContainer ==
    \A ws \in Workspaces : Len(ws.resize_dimensions) = RLen(ws.containers)

\* C4 (I1): in every reachable state every non-empty ring (monitors,
\* workspaces, containers, windows) has its focused index in [0, len)
C4_FocusedIndexInRange ==
    /\ RingFocusedOk(monitors)
    /\ \A i \in 1 .. Len(monitors.elements) :
          RingFocusedOk(monitors.elements[i].workspaces)
    /\ \A ws \in Workspaces :
          /\ RingFocusedOk(ws.containers)
          /\ RingFocusedOk(ws.monocle_container.windows)
          /\ \A k \in 1 .. RLen(ws.containers) :
                RingFocusedOk(ws.containers.elements[k].windows)

\* C5 (I5): after any reducer returns, no workspace's containers ring holds
\* a container with zero windows
C5_NoEmptyContainer ==
    \A ws \in Workspaces :
        \A k \in 1 .. RLen(ws.containers) :
            RLen(ws.containers.elements[k].windows) > 0
\* both windows floated on one workspace: the second toggle_float took the
\* last window of its container, and no container is left
C5_Witness ==
    \E ws \in Workspaces :
        /\ Len(ws.floating_windows) = 2
        /\ RLen(ws.containers) = 0

\* ------------------------------------------------------------- Window calls
\* handles the OS hands out while only the registry is watched
NumHandles == 4
Handles == 1 .. NumHandles
\* one call of Window::hide, Window::restore or Window::maximize
WindowHide(h) ==
    /\ hidden_hwnds' = hide(hidden_hwnds, h)
    /\ last' = [op |-> "hide", arg |-> h, ret |-> NoWindow]
    /\ UNCHANGED <<monitors, workspace_rules, proc>>
WindowRestore(h) ==
    /\ hidden_hwnds' = restore(hidden_hwnds, h)
    /\ last' = [op |-> "restore", arg |-> h, ret |-> NoWindow]
    /\ UNCHANGED <<monitors, workspace_rules, proc>>
WindowMaximize(h) ==
    /\ hidden_hwnds' = maximize(hidden_hwnds, h)
    /\ last' = [op |-> "maximize", arg |-> h, ret |-> NoWindow]
    /\ UNCHANGED <<monitors, workspace_rules, proc>>
NextWindow ==
    \/ \E h \in Handles : WindowHide(h)
    \/ \E h \in Handles : WindowRestore(h)
    \/ \E h \in Handles : WindowMaximize(h)
SpecWindow == Init /\ [][NextWindow]_vars

Count(s, x) == Cardinality({k \in 1 .. Len(s) : s[k] = x})
\* C6 (I6): right after hide(w) the handle of w is in hidden_hwnds, right
\* after restore(w) or maximize(w) it is not, and a call on w leaves the
\* entries of every other handle as they were
C6_HiddenRegistry ==
    [][\A h \in Handles :
          /\ WindowHide(h) => h \in Range(hidden_hwnds')
          /\ WindowRestore(h) \/ WindowMaximize(h) => h \notin Range(hidden_hwnds')
          /\ WindowHide(h) \/ WindowRestore(h) \/ WindowMaximize(h) =>
                \A g \in Handles \ {h} :
                    Count(hidden_hwnds', g) = Count(hidden_hwnds, g)]_vars
\* a window restored while two other windows stay hidden
C6_Witness ==
    /\ last.op = "restore"
    /\ last.arg \notin Range(hidden_hwnds)
    /\ Len(hidden_hwnds) = 2

\* ------------------------------------------------------------- Window::should_manage
\* what the OS and the identifier lists answer during one call: each read
\* either fails or yields a value; float and manage hold the attributes of
\* the window found in FLOAT_IDENTIFIERS and MANAGE_IDENTIFIERS, layered
\* tells whether its exe is in LAYERED_EXE_WHITELIST
StyleReads == {[ok |-> FALSE, bits |-> {}]}
                 \cup {[ok |-> TRUE, bits |-> b] : b \in SUBSET {"CAPTION"}}
ExStyleReads == {[ok |-> FALSE, bits |-> {}]}
                   \cup {[ok |-> TRUE, bits |-> b] :
                            b \in SUBSET {"WINDOWEDGE", "DLGMODALFRAME", "LAYERED"}}
ManageInputs ==
    [title_ok : BOOLEAN, title_again_ok : BOOLEAN,
     cloak : {"err", "cloaked", "uncloaked"},
     event : {"None", "Hide", "Show"},
     exe_ok : BOOLEAN, class_ok : BOOLEAN,
     float : SUBSET {"title", "exe", "class"},
     manage : SUBSET {"exe", "class"},
     layered : BOOLEAN,
     style : StyleReads, ex_style : ExStyleReads]
\* the style test with the manage override read as part of the last &&
StyleTestOverrideInside(i) ==
    /\ "CAPTION" \in i.style.bits
    /\ "WINDOWEDGE" \in i.ex_style.bits
    /\ "DLGMODALFRAME" \notin i.ex_style.bits
    /\ \/ i.layered \/ "LAYERED" \notin i.ex_style.bits
       \/ i.manage # {}
\* the style test of should_manage; && binds tighter than ||, so the manage
\* override stands alone
StyleTest(i) ==
    \/ /\ "CAPTION" \in i.style.bits
       /\ "WINDOWEDGE" \in i.ex_style.bits
       /\ "DLGMODALFRAME" \notin i.ex_style.bits
       /\ i.layered \/ "LAYERED" \notin i.ex_style.bits
    \/ i.manage # {}
\* Window::should_manage: Result<bool> as <<"ok", b>> or <<"err", FALSE>>
should_manage(i) ==
    IF ~i.title_ok THEN <<"ok", FALSE>>
    ELSE IF i.cloak = "err" THEN <<"err", FALSE>>
    ELSE IF ~(i.event = "Hide" \/ i.cloak = "uncloaked") THEN <<"ok", FALSE>>
    ELSE IF ~(i.title_again_ok /\ i.exe_ok /\ i.class_ok) THEN <<"ok", FALSE>>
    ELSE IF i.float # {} THEN <<"ok", FALSE>>
    ELSE IF ~i.style.ok THEN <<"err", FALSE>>
    ELSE IF ~i.ex_style.ok THEN <<"err", FALSE>>
    ELSE <<"ok", StyleTest(i)>>

InitManage ==
    /\ monitors = Ring([i \in 1 .. NumMonitors |->
                           Monitor(Ring(<<DefaultWorkspace>>, 0))], 0)
    /\ hidden_hwnds = <<>>
    /\ workspace_rules = Rules
    /\ \E i \in ManageInputs : last = [op |-> "none", arg |-> i, ret |-> NoWindow]
    /\ proc = new(<<>>)
ShouldManage ==
    /\ last.op = "none"
    /\ last' = [op |-> "should_manage", arg |-> last.arg,
                ret |-> should_manage(last.arg)]
    /\ UNCHANGED <<monitors, hidden_hwnds, workspace_rules, proc>>
NextManage == ShouldManage
SpecManage == InitManage /\ [][NextManage]_vars

\* the four conditions of the should_manage predicate as the spec lists them
Uncloaked(i) == i.event = "Hide" \/ i.cloak = "uncloaked"
WindowStyled(i) ==
    /\ "CAPTION" \in i.style.bits
    /\ "WINDOWEDGE" \in i.ex_style.bits
    /\ "DLGMODALFRAME" \notin i.ex_style.bits
    /\ ("LAYERED" \notin i.ex_style.bits \/ i.layered)
ListedConditions(i) ==
    /\ i.title_ok
    /\ Uncloaked(i)
    /\ i.float = {}
    /\ (WindowStyled(i) \/ i.manage # {})
\* the reads the call makes before it looks at the styles
ReachesStyles(i) ==
    /\ i.title_ok /\ i.cloak # "err" /\ Uncloaked(i)
    /\ i.title_again_ok /\ i.exe_ok /\ i.class_ok
    /\ i.float = {}

\* C7 as stated: should_manage returns true exactly when the four listed
\* conditions hold and returns false otherwise, whatever reads fail
C7_TrueIffListedElseFalse ==
    last.op = "should_manage" => last.ret = <<"ok", ListedConditions(last.arg)>>
\* C7 as amended: should_manage returns Ok(true) exactly when the listed
\* conditions hold and the cloak, second title, exe, class, style and
\* ex-style reads all succeed; it returns an error exactly when the title
\* read succeeds and the cloak read fails, or the call reaches the styles and
\* the style or ex-style read fails; in every other case it returns Ok(false)
C7_ShouldManageResult ==
    last.op = "should_manage" =>
        LET i == last.arg
            styles_ok == i.style.ok /\ i.ex_style.ok
        IN  /\ last.ret[1] \in {"ok", "err"}
            /\ last.ret[1] = "err" <=>
                  \/ i.title_ok /\ i.cloak = "err"
                  \/ ReachesStyles(i) /\ ~styles_ok
            /\ last.ret = <<"ok", TRUE>> <=>
                  /\ ReachesStyles(i) /\ styles_ok
                  /\ ListedConditions(i)
\* a cloaked window without caption, managed on a Hide event through the
\* manage-identifier override
C7_Witness ==
    /\ last.op = "should_manage"
    /\ last.ret = <<"ok", TRUE>>
    /\ last.arg.event = "Hide" /\ last.arg.cloak = "cloaked"
    /\ "CAPTION" \notin last.arg.style.bits
    /\ last.arg.manage = {"class"}

\* ------------------------------------------------------------- workspace rule claims
\* what enforce_workspace_rules returns in the current state
Enforced == enforce_workspace_rules(World, workspace_rules)
\* h is the visible window of some container of workspace (i, j)
VisibleOn(w, i, j, h) ==
    /\ HasWorkspace(w, i, j)
    /\ h \in Range(visible_windows(WorkspaceAt(w, i, j)))
HeldOn(w, i, j, h) ==
    HasWorkspace(w, i, j) /\ h \in Range(AllWindows(WorkspaceAt(w, i, j)))
\* the stacks of the containers of workspace (i, j) that hold h
StacksOf(w, i, j, h) ==
    {c.windows : c \in {d \in Range(WorkspaceAt(w, i, j).containers.elements) :
                           contains_window(d, h)}}
FocusedPlace(w) == <<focused_monitor_idx(w), focused_workspace_idx(focused_monitor(w))>>
\* the case of C8: h is visible on the focused workspace and its rule names
\* another workspace
RuleMovesFromFocused(w, h) ==
    /\ VisibleOn(w, FocusedPlace(w)[1], FocusedPlace(w)[2], h)
    /\ RuleFor(workspace_rules, h) # NoRule
    /\ RuleFor(workspace_rules, h) # FocusedPlace(w)
\* what C8 says of the state w1 that enforce_workspace_rules makes of w0
MovedByRule(w0, w1, h) ==
    LET f == FocusedPlace(w0)
        t == RuleFor(workspace_rules, h)
    IN  /\ ~HeldOn(w1, f[1], f[2], h)
        /\ HasWorkspace(w1, t[1], t[2])
        /\ StacksOf(w1, t[1], t[2], h) = {Ring(<<h>>, 0)}
        /\ \A p \in Places(w1) : HeldOn(w1, p[1], p[2], h) => p = t
        /\ h \in Range(w1.hidden)

C9_EnforceIdempotent ==
    Enforced.st = "ok" =>
        enforce_workspace_rules(Enforced.v, workspace_rules).v.monitors
            = Enforced.v.monitors

\* the ops the two retain calls drop: the rule of a visible window names the
\* focused workspace or the workspace the window is on
Dropped(w, p, h) ==
    /\ VisibleOn(w, p[1], p[2], h)
    /\ RuleFor(workspace_rules, h) # NoRule
    /\ RuleFor(workspace_rules, h) \in {FocusedPlace(w), p}
\* every visible window with a rule has its op dropped, and there is one
AllDropped(w) ==
    /\ \A p \in Places(w), h \in Hwnds :
          VisibleOn(w, p[1], p[2], h) /\ RuleFor(workspace_rules, h) # NoRule
              => Dropped(w, p, h)
    /\ \E p \in Places(w), h \in Hwnds : Dropped(w, p, h)
\* h stays on workspace p, in the same stack
StaysPut(w0, w1, p, h) ==
    /\ HeldOn(w1, p[1], p[2], h)
    /\ \A q \in Places(w1) : HeldOn(w1, q[1], q[2], h) => q = p
    /\ StacksOf(w1, p[1], p[2], h) = StacksOf(w0, p[1], p[2], h)
HiddenAsBefore(w0, w1, h) == (h \in Range(w1.hidden)) = (h \in Range(w0.hidden))

NumTiles == 3
Tiles == 1 .. NumTiles
\* cap on the offset a resize slot accumulates per edge
MaxDelta == 50
Sizings == {"Increase", "Decrease"}
Steps == {NoStep, DefaultStep}
SlotsWithin(w) ==
    \A p \in Places(w) :
        \A k \in 1 .. Len(WorkspaceAt(w, p[1], p[2]).resize_dimensions) :
            LET slot == WorkspaceAt(w, p[1], p[2]).resize_dimensions[k] IN
            slot # NoResize =>
                \A e \in 1 .. 4 : slot[e] <= MaxDelta /\ 0 - slot[e] <= MaxDelta
\* tiles appear in handle order: flip and resize do not look at handles
ManageTile ==
    \E h \in Tiles \ ManagedWindows(World) :
        /\ \A g \in Tiles \ ManagedWindows(World) : h <= g
        /\ Returns("manage_window", manage_window(World, h))
FlipLayout ==
    \E f \in Flips : Returns("flip_layout", flip_layout(World, f))
ResizeWindow ==
    \E d \in Directions, sizing \in Sizings, step \in Steps :
        /\ SlotsWithin(resize_window(World, d, sizing, step).v)
        /\ Returns("resize_window", resize_window(World, d, sizing, step))
ChangeWorkspaceLayout ==
    \E layout \in Layouts :
        Returns("change_workspace_layout", change_workspace_layout(World, layout))
\* the indices come from the command line: they may name no monitor or no
\* workspace
SetWorkspaceLayout ==
    \E i \in 0 .. NumMonitors, j \in 0 .. 1, layout \in Layouts :
        Returns("set_workspace_layout", set_workspace_layout(World, i, j, layout))
NextLayout ==
    \/ ManageTile
    \/ FocusContainerInDirection
    \/ FlipLayout
    \/ ResizeWindow
SpecLayout == Init /\ [][NextLayout]_vars

\* ------------------------------------------------------------- round trip claims
\* neither a monocle container nor a maximized window is set
NoOverlay(ws) == ws.monocle_container = NoContainer /\ ws.maximized_window = NoWindow
\* the stacks of the containers, in container order
StackSeq(ws) ==
    [k \in 1 .. RLen(ws.containers) |-> ws.containers.elements[k].windows.elements]
\* the focused window index of each container, in container order
FocusSeq(ws) ==
    [k \in 1 .. RLen(ws.containers) |-> ws.containers.elements[k].windows.focused]
\* the focused workspace has a focused container with a focused window and
\* no overlay
TiledAndFocused(w) ==
    /\ HasFocusedWs(w)
    /\ HasFocusedContainer(focused_workspace(w))
    /\ focused_window(focused_container(focused_workspace(w))) # NoWindow
    /\ NoOverlay(focused_workspace(w))
\* what two toggle_monocle calls in a row make of the state w
MonocleRestored(w) ==
    LET ws == focused_workspace(w)
        on == toggle_monocle(w)
        mid == focused_workspace(on.v)
        off == toggle_monocle(on.v)
    IN  /\ on.st = "ok"
        /\ mid.monocle_container = focused_container(ws)
        /\ mid.monocle_restore_idx = focused_container_idx(ws)
        /\ RLen(mid.containers) = RLen(ws.containers) - 1
        /\ off.st = "ok"
        /\ NoOverlay(focused_workspace(off.v))
        /\ focused_workspace(off.v).containers = ws.containers

\* C11 (L2): on a workspace with at least one container and no overlay,
\* toggle_monocle stashes the focused container with its index and a second
\* toggle_monocle restores the same containers in the same order with the
\* same focused container and the same focused window in each container
C11_MonocleRoundTrip ==
    TiledAndFocused(World) => MonocleRestored(World)
\* two containers with the first one focused, as in the monocle scenario
C11_Witness ==
    /\ TiledAndFocused(World)
    /\ RLen(focused_workspace(World).containers) = 2
    /\ focused_container_idx(focused_workspace(World)) = 0
    /\ toggle_monocle(World).v.monitors # monitors
    /\ MonocleRestored(World)

\* C12 (L3): on a workspace with a focused window and no overlay,
\* toggle_maximize followed by toggle_maximize succeeds and puts every
\* window back at its index in its container, the containers in their order
C12_MaximizeRoundTrip ==
    TiledAndFocused(World) =>
        LET on == toggle_maximize(World)
            off == toggle_maximize(on.v)
        IN  /\ on.st = "ok" /\ off.st = "ok"
            /\ StackSeq(focused_workspace(off.v)) = StackSeq(focused_workspace(World))

\* C13 (L1): with the focused window being the foreground window and no
\* overlay, toggle_float followed by toggle_float succeeds and leaves the
\* same stacks in the same container order with the same focused indices
C13_FloatRoundTrip ==
    TiledAndFocused(World) =>
        LET ws == focused_workspace(World)
            fg == focused_window(focused_container(ws))
            on == toggle_float(World, fg)
            off == toggle_float(on.v, fg)
        IN  /\ on.st = "ok" /\ off.st = "ok"
            /\ StackSeq(focused_workspace(off.v)) = StackSeq(ws)
            /\ FocusSeq(focused_workspace(off.v)) = FocusSeq(ws)
            /\ focused_container_idx(focused_workspace(off.v))
                   = focused_container_idx(ws)

\* ------------------------------------------------------------- flip and resize claims
\* the flip of the focused workspace after flip_layout(f) in state w
FlipAfter(w, f) == focused_workspace(flip_layout(w, f).v).layout_flip
\* a flip read as the set of flipped axes
Axes(flip) ==
    CASE flip = "None" -> {}
      [] flip = "Horizontal" -> {"H"}
      [] flip = "Vertical" -> {"V"}
      [] flip = "HorizontalAndVertical" -> {"H", "V"}
FlipOf(axes) == CHOOSE flip \in Flips \cup {"None"} : Axes(flip) = axes
Xor(a, b) == (a \ b) \cup (b \ a)

\* C14 (L4): from every flip state flip_layout(f) applied twice with f
\* Horizontal or Vertical returns layout_flip to its starting value, and
\* flip_layout(HorizontalAndVertical) takes None to HorizontalAndVertical
\* and HorizontalAndVertical back to None
C14_FlipTwice ==
    HasFocusedWs(World) =>
        LET current == focused_workspace(World).layout_flip IN
        /\ \A f \in {"Horizontal", "Vertical"} :
              /\ flip_layout(World, f).st = "ok"
              /\ flip_layout(flip_layout(World, f).v, f).st = "ok"
              /\ FlipAfter(flip_layout(World, f).v, f) = current
        /\ current = "None" =>
              FlipAfter(World, "HorizontalAndVertical") = "HorizontalAndVertical"
        /\ current = "HorizontalAndVertical" =>
              FlipAfter(World, "HorizontalAndVertical") = "None"
\* a workspace of two containers flipped on both axes, where a Vertical flip
\* leaves Horizontal and a second one brings both axes back
C14_Witness ==
    /\ HasFocusedWs(World)
    /\ focused_workspace(World).layout_flip = "HorizontalAndVertical"
    /\ RLen(focused_workspace(World).containers) = 2
    /\ FlipAfter(World, "Vertical") = "Horizontal"
    /\ FlipAfter(flip_layout(World, "Vertical").v, "Vertical") = "HorizontalAndVertical"

\* C15: for every current flip c and argument f, flip_layout(f) sets
\* layout_flip to the XOR of c and f read as sets of flipped axes
C15_FlipIsXor ==
    HasFocusedWs(World) =>
        \A f \in Flips :
            FlipAfter(World, f)
                = FlipOf(Xor(Axes(focused_workspace(World).layout_flip), Axes(f)))

\* resize_window reaches its layout.resize call for direction d in state w
Resizes(w, d) ==
    /\ HasFocusedWs(w)
    /\ Has(focused_workspace(w).resize_dimensions,
           focused_container_idx(focused_workspace(w)))
    /\ is_valid(d, focused_workspace(w).layout, focused_workspace(w).layout_flip,
                focused_container_idx(focused_workspace(w)),
                RLen(focused_workspace(w).containers))
\* the flip covers the axis of the direction
FlipCovers(flip, d) ==
    \/ d \in {"Left", "Right"} /\ flip \in {"Horizontal", "HorizontalAndVertical"}
    \/ d \in {"Up", "Down"} /\ flip \in {"Vertical", "HorizontalAndVertical"}
\* what C16 says of resize_window(d, sizing, step) in state w
ResizedAsFlipped(w, d, sizing, step) ==
    LET ws == focused_workspace(w)
        f == focused_container_idx(ws)
        call == ResizeCall(ws, d, sizing, step)
        handed == IF FlipCovers(ws.layout_flip, d) THEN opposite(d) ELSE d
        after == resize_window(w, d, sizing, step)
        slots == focused_workspace(after.v).resize_dimensions
    IN  /\ call.direction = handed
        /\ after.st = "ok"
        /\ Has(slots, f)
        /\ At(slots, f) = layout_resize(call.reference, call.current_delta,
                                        handed, sizing, step)
        /\ \A k \in 0 .. Len(ws.resize_dimensions) - 1 :
              k # f => Has(slots, k) /\ At(slots, k) = At(ws.resize_dimensions, k)

\* C16: the direction resize_window hands to layout.resize is the opposite
\* of the requested one exactly when the flip covers the direction's axis,
\* and the delta it gets is stored at resize_dimensions[focused_idx] with
\* every other slot unchanged
C16_ResizeDirectionUnderFlip ==
    \A d \in Directions, sizing \in Sizings, step \in Steps :
        Resizes(World, d) => ResizedAsFlipped(World, d, sizing, step)
\* a vertically flipped workspace of three containers where an Up or Down
\* resize of an already resized container is handed on as its opposite, while
\* another container keeps its delta
C16_Witness ==
    /\ HasFocusedWs(World)
    /\ focused_workspace(World).layout_flip = "Vertical"
    /\ \E d \in {"Up", "Down"} :
          /\ Resizes(World, d)
          /\ ResizeCall(focused_workspace(World), d, "Increase", NoStep).direction
                 = opposite(d)
          /\ ResizeCall(focused_workspace(World), d, "Increase", NoStep).current_delta
                 # NoResize
          /\ ResizedAsFlipped(World, d, "Increase", NoStep)
    /\ \E k \in 1 .. Len(focused_workspace(World).resize_dimensions) :
          /\ k # focused_container_idx(focused_workspace(World)) + 1
          /\ focused_workspace(World).resize_dimensions[k] # NoResize

\* C17: the reference rectangle resize_window passes to layout.resize is the
\* focused container's rectangle in the unflipped layout computed with empty
\* resize_dimensions, whatever the flip of the workspace
C17_ReferenceUnflipped ==
    \A d \in Directions :
        Resizes(World, d) =>
            ResizeCall(focused_workspace(World), d, "Increase", NoStep).reference
                = At(calculate(focused_workspace(World).layout, WorkArea,
                               RLen(focused_workspace(World).containers),
                               "None", <<>>),
                     focused_container_idx(focused_workspace(World)))

\* ------------------------------------------------- moving between monitors
\* the focused workspace of monitor m
WorkspaceOf(w, m) == MonitorFocusedWorkspace(RGet(w.monitors, m))
\* monitor 0 is focused and its focused workspace, which has no overlay, holds
\* exactly one container
OneContainerOnFirst(w) ==
    /\ RLen(w.monitors) = 2
    /\ focused_monitor_idx(w) = 0
    /\ HasFocusedWs(w)
    /\ NoOverlay(focused_workspace(w))
    /\ RLen(focused_workspace(w).containers) = 1
\* the move to monitor 1 succeeded, emptied the origin workspace, put the
\* container with all its windows among the containers of monitor 1's focused
\* workspace, and left the focus on monitor focus
MovedToSecond(w, follow, focus) ==
    LET r == move_container_to_monitor(w, 1, follow)
        c == focused_container(focused_workspace(w))
    IN  /\ r.st = "ok"
        /\ RLen(WorkspaceOf(r.v, 0).containers) = 0
        /\ \E k \in 0 .. RLen(WorkspaceOf(r.v, 1).containers) - 1 :
              RGet(WorkspaceOf(r.v, 1).containers, k) = c
        /\ RLen(WorkspaceOf(r.v, 1).containers)
               = RLen(WorkspaceOf(w, 1).containers) + 1
        /\ focused_monitor_idx(r.v) = focus

\* C18: with two monitors, monitor 0 focused and one container C on its focused
\* workspace, move_container_to_monitor(1, follow) empties monitor 0's
\* workspace and puts C in monitor 1's focused workspace; the focused monitor
\* becomes 1 when follow is true and stays 0 when it is false
C18_MoveToMonitor ==
    OneContainerOnFirst(World) =>
        /\ MovedToSecond(World, TRUE, 1)
        /\ MovedToSecond(World, FALSE, 0)
\* one container stacking two windows on monitor 0 while monitor 1 is empty,
\* moved both with and without following
C18_Witness ==
    /\ OneContainerOnFirst(World)
    /\ RLen(focused_container(focused_workspace(World)).windows) = 2
    /\ RLen(WorkspaceOf(World, 1).containers) = 0
    /\ MovedToSecond(World, TRUE, 1)
    /\ MovedToSecond(World, FALSE, 0)

\* C19: move_container_to_monitor with an index naming no monitor returns an
\* error and leaves the hierarchy as it was, the focused container still in its
\* origin workspace with all its windows
C19_FailedMoveKeepsContainer ==
    \A idx \in 0 .. NumMonitors, follow \in BOOLEAN :
        ~RHas(World.monitors, idx) =>
            /\ move_container_to_monitor(World, idx, follow).st = "err"
            /\ move_container_to_monitor(World, idx, follow).v.monitors
                   = World.monitors

\* C20: on a workspace whose maximized_window is set move_container_to_monitor
\* returns an error and changes nothing, whatever the index and follow
C20_MaximizedBlocksMove ==
    (HasFocusedWs(World) /\ focused_workspace(World).maximized_window # NoWindow) =>
        \A idx \in 0 .. NumMonitors, follow \in BOOLEAN :
            move_container_to_monitor(World, idx, follow) = Err(World)
\* a maximized window over a workspace that still has a focused container, so
\* an unguarded move to the other monitor would have taken that container
C20_Witness ==
    /\ HasFocusedWs(World)
    /\ focused_workspace(World).maximized_window # NoWindow
    /\ HasFocusedContainer(focused_workspace(World))
    /\ RLen(World.monitors) = 2
    /\ move_container_to_monitor(World, 1 - focused_monitor_idx(World), TRUE)
           = Err(World)

\* ------------------------------------------------- stacking on one workspace
\* windows stacked into containers and unstacked again on the focused
\* workspace, and moved away by the workspace rules
NextStack ==
    \/ ManageTile
    \/ FocusContainerInDirection
    \/ MoveContainerInDirection
    \/ AddWindowToContainer
    \/ CycleContainerWindowInDirection
    \/ RemoveWindowFromContainer
    \/ EnforceWorkspaceRules
SpecStack == Init /\ [][NextStack]_vars

\* ------------------------------------------------- arranging one workspace
ToggleTiling == Returns("toggle_tiling", toggle_tiling(World))
\* the indices come from the command line: they may name no monitor or no
\* workspace
SetWorkspaceTiling ==
    \E i \in 0 .. NumMonitors, j \in 0 .. 1, tile \in BOOLEAN :
        Returns("set_workspace_tiling", set_workspace_tiling(World, i, j, tile))
\* containers focused, moved, stacked and unstacked while layout and tiling
\* of the workspaces are switched
NextArrange ==
    \/ ManageTile
    \/ FocusContainerInDirection
    \/ MoveContainerInDirection
    \/ AddWindowToContainer
    \/ CycleContainerWindowInDirection
    \/ RemoveWindowFromContainer
    \/ ChangeWorkspaceLayout
    \/ SetWorkspaceLayout
    \/ ToggleTiling
    \/ SetWorkspaceTiling
SpecArrange == Init /\ [][NextArrange]_vars

\* the windows of a workspace, as a set
WindowSet(ws) == Range(AllWindows(ws))
\* unstacking succeeded: one container more, the previously focused window
\* alone in a new container right after its source, the source keeping its
\* other windows in order, every other container and the window set as before
Unstacked(w) ==
    LET r == remove_window_from_container(w)
        ws == focused_workspace(w)
        f == focused_container_idx(ws)
        c == focused_container(ws)
        h == focused_window(c)
        after == focused_workspace(r.v)
    IN  /\ r.st = "ok"
        /\ RLen(after.containers) = RLen(ws.containers) + 1
        /\ RGet(after.containers, f + 1).windows.elements = <<h>>
        /\ RGet(after.containers, f).id = c.id
        /\ RGet(after.containers, f).windows.elements
               = RemoveAt(c.windows.elements, focused_window_idx(c))
        /\ \A k \in 0 .. RLen(ws.containers) - 1 :
              k # f => RGet(after.containers, IF k < f THEN k ELSE k + 1)
                           = RGet(ws.containers, k)
        /\ WindowSet(after) = WindowSet(ws)

\* C21: remove_window_from_container on a focused container of exactly one
\* window returns an error and changes nothing; on a container of two or more
\* windows it succeeds, adds exactly one container holding only the previously
\* focused window immediately after the source container, and keeps the set of
\* windows of the workspace
C21_Unstack ==
    (HasFocusedWs(World) /\ HasFocusedContainer(focused_workspace(World))) =>
        IF RLen(focused_container(focused_workspace(World)).windows) = 1
        THEN remove_window_from_container(World) = Err(World)
        ELSE Unstacked(World)

\* ------------------------------------------------- directions without a neighbour
\* the focused container has no valid neighbour in direction d under the
\* layout and flip of its workspace
NoNeighbour(w, d) ==
    /\ HasFocusedWs(w)
    /\ HasFocusedContainer(focused_workspace(w))
    /\ ~is_valid(d, focused_workspace(w).layout, focused_workspace(w).layout_flip,
                 focused_container_idx(focused_workspace(w)),
                 RLen(focused_workspace(w).containers))

\* C22: called with a direction that has no valid neighbour, each of
\* focus_container_in_direction, move_container_in_direction,
\* add_window_to_container and resize_window returns an error and leaves the
\* hierarchy, the focus and the resize_dimensions as they were
C22_InvalidDirectionIsError ==
    \A d \in Directions :
        NoNeighbour(World, d) =>
            /\ focus_container_in_direction(World, d) = Err(World)
            /\ move_container_in_direction(World, d) = Err(World)
            /\ add_window_to_container(World, d) = Err(World)
            /\ \A sizing \in Sizings, step \in Steps :
                  resize_window(World, d, sizing, step) = Err(World)

\* ------------------------------------------------- paddings of one workspace
\* how far below zero and how far above it the adjusted paddings go, the
\* paddings a workspace starts with, and the adjustments asked for
MaxBelowZero == 1
MaxPadding == 20
Paddings == {NoPadding, <<0>>, <<10>>}
Adjustments == {5, 10}
InitPadding ==
    /\ \E wp \in Paddings, cp \in Paddings :
          monitors = Ring([i \in 1 .. NumMonitors |->
                              Monitor(Ring(<<[DefaultWorkspace EXCEPT
                                                 !.workspace_padding = wp,
                                                 !.container_padding = cp]>>, 0))],
                          0)
    /\ hidden_hwnds = <<>>
    /\ workspace_rules = Rules
    /\ last = NoCall
    /\ proc = new(<<>>)
PaddingWithin(p) ==
    IF p = NoPadding THEN TRUE ELSE 0 - MaxBelowZero <= p[1] /\ p[1] <= MaxPadding
\* the sizes a padding is set to: any i32 of the command line
PaddingSizes == {-1, 0, 4, 10}
AdjustWorkspacePadding ==
    \E sizing \in Sizings, n \in Adjustments :
        /\ PaddingWithin(focused_workspace(
               adjust_workspace_padding(World, sizing, n).v).workspace_padding)
        /\ Returns("adjust_workspace_padding",
                   adjust_workspace_padding(World, sizing, n))
AdjustContainerPadding ==
    \E sizing \in Sizings, n \in Adjustments :
        /\ PaddingWithin(focused_workspace(
               adjust_container_padding(World, sizing, n).v).container_padding)
        /\ Returns("adjust_container_padding",
                   adjust_container_padding(World, sizing, n))
SetWorkspacePadding ==
    \E i \in 0 .. NumMonitors, j \in 0 .. 1, size \in PaddingSizes :
        Returns("set_workspace_padding", set_workspace_padding(World, i, j, size))
SetContainerPadding ==
    \E i \in 0 .. NumMonitors, j \in 0 .. 1, size \in PaddingSizes :
        Returns("set_container_padding", set_container_padding(World, i, j, size))
NextPadding ==
    \/ ManageTile
    \/ FocusContainerInDirection
    \/ AdjustWorkspacePadding
    \/ AdjustContainerPadding
    \/ SetWorkspacePadding
    \/ SetContainerPadding
SpecPadding == InitPadding /\ [][NextPadding]_vars

\* the adjustment r of the padding named field failed and changed nothing when
\* the padding was unset, and otherwise succeeded, replaced that padding by
\* its adjusted value and left every other field of the workspace, and
\* everything else the manager holds, as it was
PaddingAdjusted(w, r, field, sizing, n) ==
    IF focused_workspace(w)[field] = NoPadding
    THEN r = Err(w)
    ELSE /\ r.st = "ok"
         /\ focused_workspace(r.v)[field]
                = <<adjust_by(sizing, focused_workspace(w)[field][1], n)>>
         /\ r.v = SetFocusedWorkspace(w,
                      [focused_workspace(w) EXCEPT
                          ![field] = focused_workspace(r.v)[field]])

\* C23: adjust_workspace_padding and adjust_container_padding return an error
\* and leave the workspace unchanged when the targeted padding is unset; when
\* it is set they replace it by the adjusted value and change no other field
C23_AdjustPadding ==
    \A sizing \in Sizings, n \in Adjustments :
        /\ PaddingAdjusted(World, adjust_workspace_padding(World, sizing, n),
                           "workspace_padding", sizing, n)
        /\ PaddingAdjusted(World, adjust_container_padding(World, sizing, n),
                           "container_padding", sizing, n)
\* a tiled workspace whose workspace padding is unset and whose container
\* padding has been adjusted away from every starting value: one adjustment
\* fails and the other succeeds
C23_Witness ==
    /\ RLen(focused_workspace(World).containers) = 2
    /\ focused_workspace(World).workspace_padding = NoPadding
    /\ focused_workspace(World).container_padding = <<15>>
    /\ adjust_workspace_padding(World, "Increase", 5) = Err(World)
    /\ focused_workspace(adjust_container_padding(World, "Decrease", 10).v)
           .container_padding = <<5>>

\* ------------------------------------------------- focus after an update
\* C24: update_focused_workspace(true) focuses exactly one target: the
\* maximized window if set; else the focused window of the monocle container
\* if one is set; else the focused window of the focused container; else the
\* desktop window, made foreground without thread attach. With
\* mouse_follows_focus false nothing is focused
C24_FocusPriority ==
    HasFocusedWs(World) =>
        LET ws == focused_workspace(World)
            t == FocusGiven(World, TRUE)
        IN  /\ FocusGiven(World, FALSE).target = "none"
            /\ t.target \in {"window", "desktop"}
            /\ t.target = "window" => t.hwnd # NoWindow /\ t.attach
            /\ ws.maximized_window # NoWindow => t.hwnd = ws.maximized_window
            /\ (ws.maximized_window = NoWindow /\ ws.monocle_container # NoContainer)
                  => t.hwnd = focused_window(ws.monocle_container)
            /\ (NoOverlay(ws) /\ HasFocusedContainer(ws))
                  => t.hwnd = focused_window(focused_container(ws))
            /\ (NoOverlay(ws) /\ ~HasFocusedContainer(ws))
                  => (t.target = "desktop" /\ ~t.attach)

\* ------------------------------------------------- Window::set_position
\* the invisible border of a window, hard coded in set_position
Border == Rect(12, 0, 24, 12)
\* a correction that pushes the left and top edges inwards
ExpandInwards(rect, border) ==
    Rect(rect[1] + border[1], rect[2] + border[2],
         rect[3] + border[3], rect[4] + border[4])
\* set_position: the border is taken off the left and top edges and added to
\* the right and bottom extents of a copy of the layout rectangle
Expand(rect, border) ==
    Rect(rect[1] - border[1], rect[2] - border[2],
         rect[3] + border[3], rect[4] + border[4])
\* set_position(layout, top): the rectangle and flag handed to
\* WindowsApi::position_window, and the caller's rectangle after the call
set_position(layout, top) ==
    [os |-> Expand(layout, Border), top |-> top, layout |-> layout]
\* layout rectangles on monitors left of, at and right of the origin
LayoutRects ==
    {Rect(l, t, r, b) : l \in {-1920, 0, 960, 1920}, t \in {-1080, 0, 540},
                        r \in {640, 960, 1920}, b \in {540, 1080}}
InitPosition ==
    /\ monitors = Ring([i \in 1 .. NumMonitors |->
                           Monitor(Ring(<<DefaultWorkspace>>, 0))], 0)
    /\ hidden_hwnds = <<>>
    /\ workspace_rules = Rules
    /\ \E layout \in LayoutRects, top \in BOOLEAN :
          last = [op |-> "none", arg |-> <<layout, top>>, ret |-> NoWindow]
    /\ proc = new(<<>>)
SetPosition ==
    /\ last.op = "none"
    /\ last' = [op |-> "set_position", arg |-> last.arg,
                ret |-> set_position(last.arg[1], last.arg[2])]
    /\ UNCHANGED <<monitors, hidden_hwnds, workspace_rules, proc>>
NextPosition == SetPosition
SpecPosition == InitPosition /\ [][NextPosition]_vars

\* C25: for every layout rectangle (left, top, right, bottom) set_position
\* issues the OS position call with (left - 12, top, right + 24, bottom + 12)
\* and leaves the caller's rectangle as it was; (0, 0, 1920, 1080) reaches the
\* OS as (-12, 0, 1944, 1092)
C25_SetPositionBorder ==
    /\ last.op = "set_position" =>
          /\ last.ret.os = <<last.arg[1][1] - 12, last.arg[1][2],
                             last.arg[1][3] + 24, last.arg[1][4] + 12>>
          /\ last.ret.layout = last.arg[1]
          /\ last.ret.top = last.arg[2]
    /\ set_position(WorkArea, TRUE).os = <<-12, 0, 1944, 1092>>
\* the full work area of the first monitor has been positioned
C25_Witness ==
    /\ last.op = "set_position"
    /\ last.arg[1] = <<0, 0, 1920, 1080>>
    /\ last.ret.os = <<-12, 0, 1944, 1092>>

\* ------------------------------------------------- the restore pass
\* C27: on interrupt the process takes the WindowManager lock and restores
\* every window recorded in hidden_hwnds before it exits with status 130: in
\* whatever state the interrupt finds the manager, hidden_hwnds is empty after
\* restore_all_windows, handles of floating, monocle and maximized windows
\* included
C27_RestoreEmptiesHidden ==
    restore_all_windows(World).hidden = <<>>

\* ------------------------------------------------- threads of the process
\* events the hook pushes and messages clients send before the run ends
MaxEvents == 2
MaxMessages == 2
HookKinds == {"Show", "Destroy"}
ClientMessages == {"TogglePause", "ManageFocusedWindow", "UnmanageFocusedWindow"}
\* one step of a thread: the hierarchy it leaves and the process state
Step(w, p) ==
    /\ monitors' = w.monitors
    /\ hidden_hwnds' = w.hidden
    /\ proc' = p
    /\ UNCHANGED <<workspace_rules, last>>
Running == proc.exit = 0
\* OS event thread: the hook callback pushes a normalized event
HookPush ==
    /\ Running
    /\ proc.pushed < MaxEvents
    /\ \E kind \in HookKinds, h \in Hwnds : Step(World, Send(proc, kind, h))
\* OS event thread: the message loop hands the oldest event to the manager
Forward ==
    /\ Running
    /\ proc.callback # <<>>
    /\ Step(World, [proc EXCEPT !.callback = Tail(@),
                                !.incoming = Append(@, Head(proc.callback))])
\* event reducer thread: receive, lock, process_event, unlock
EventRecv ==
    /\ Running
    /\ proc.pc.event = "recv"
    /\ proc.incoming # <<>>
    /\ Step(World, [proc EXCEPT !.incoming = Tail(@),
                                !.event = Head(proc.incoming),
                                !.pc.event = "lock"])
EventLock ==
    /\ Running
    /\ proc.pc.event = "lock"
    /\ CanLock(proc)
    /\ Step(World, Locked(proc, "event", World, "process"))
EventProcess ==
    /\ Running
    /\ proc.pc.event = "process"
    /\ Step(process_event(World, proc.is_paused, proc.event),
            [Unlocked(proc, "event", "recv") EXCEPT
                !.consumed = Append(@, proc.event.seq),
                !.event = NoEvent])
\* send_message: connect to komorebi.sock and write the message; once the
\* manager has exited nobody listens, connect is refused and the invocation
\* returns the error with nothing written
send_message(p, m) ==
    IF p.exit # 0 THEN [p EXCEPT !.failed = @ + 1]
    ELSE [p EXCEPT !.socket = Append(@, m), !.sent = @ + 1]
\* a komorebic invocation sends one message
ClientSend ==
    /\ proc.sent + proc.failed < MaxMessages
    /\ \E m \in ClientMessages : Step(World, send_message(proc, m))
\* command reducer thread: accept, lock, process_command, unlock; the result
\* of the last command is logged and gone when the next message is taken
CommandAccept ==
    /\ Running
    /\ proc.pc.command = "accept"
    /\ proc.socket # <<>>
    /\ Step(World, [proc EXCEPT !.socket = Tail(@),
                                !.message = Head(proc.socket),
                                !.result = "none",
                                !.pc.command = "lock"])
CommandLock ==
    /\ Running
    /\ proc.pc.command = "lock"
    /\ CanLock(proc)
    /\ Step(World, Locked(proc, "command", World, "process"))
CommandProcess ==
    /\ Running
    /\ proc.pc.command = "process"
    /\ \E fg \in Hwnds \cup {NoWindow} :
          Step(World,
               [process_command(Unlocked(proc, "command", "accept"),
                                proc.message, fg)
                   EXCEPT !.message = NoMessage])
\* main thread: the interrupt arrives, the lock is taken, every window is
\* restored, the process exits with status 130
Interrupt ==
    /\ Running
    /\ proc.pc.signal = "wait"
    /\ Step(World, [proc EXCEPT !.pc.signal = "lock"])
SignalLock ==
    /\ Running
    /\ proc.pc.signal = "lock"
    /\ CanLock(proc)
    /\ Step(World, Locked(proc, "signal", World, "restore"))
SignalRestore ==
    /\ Running
    /\ proc.pc.signal = "restore"
    /\ Step(restore_all_windows(World), Unlocked(proc, "signal", "exit"))
SignalExit ==
    /\ Running
    /\ proc.pc.signal = "exit"
    /\ Step(World, [proc EXCEPT !.exit = 130])
\* komorebic state: remove komorebic.sock, send State, bind komorebic.sock,
\* accept and print
RequesterRemove ==
    /\ proc.pc.requester = "idle"
    /\ Step(World, [proc EXCEPT !.bound = FALSE, !.pc.requester = "send"])
\* send_message(State)?: an error ends the invocation before the bind
RequesterSend ==
    /\ proc.pc.requester = "send"
    /\ Step(World, IF proc.exit # 0
                   THEN [proc EXCEPT !.pc.requester = "failed"]
                   ELSE [proc EXCEPT !.socket = Append(@, "State"),
                                     !.pc.requester = "bind"])
RequesterBind ==
    /\ proc.pc.requester = "bind"
    /\ Step(World, [proc EXCEPT !.bound = TRUE, !.pc.requester = "accept"])
RequesterAccept ==
    /\ proc.pc.requester = "accept"
    /\ proc.reply = "written"
    /\ Step(World, [proc EXCEPT !.pc.requester = "done"])
NextProcess ==
    \/ HookPush
    \/ Forward
    \/ EventRecv
    \/ EventLock
    \/ EventProcess
    \/ ClientSend
    \/ CommandAccept
    \/ CommandLock
    \/ CommandProcess
    \/ Interrupt
    \/ SignalLock
    \/ SignalRestore
    \/ SignalExit
    \/ RequesterRemove
    \/ RequesterSend
    \/ RequesterBind
    \/ RequesterAccept
SpecProcess == Init /\ [][NextProcess]_vars

\* thread t is between taking the lock and dropping it
Inside(t) == proc.pc[t] \in {"process", "restore"}

\* C26: reducer executions never interleave: at most one of the event
\* reducer, the command reducer and the interrupt handler is inside the lock,
\* the hierarchy a thread saw when it took the lock is the hierarchy it acts
\* on, and events are consumed in the order they were pushed
C26_ReducersSerialized ==
    /\ Cardinality({t \in Threads : Inside(t)}) <= 1
    /\ proc.lock = (\E t \in Threads : Inside(t))
    /\ \A t \in Threads : Inside(t) => proc.seen[t] = World
    /\ \A k \in 1 .. Len(proc.consumed) : proc.consumed[k] = k
\* the event reducer holds the lock with the second event in hand while the
\* command reducer and the interrupt handler both wait for it
C26_Witness ==
    /\ Inside("event")
    /\ proc.event.seq = 2
    /\ proc.consumed = <<1>>
    /\ proc.pc.command = "lock"
    /\ proc.pc.signal = "lock"

\* C28: a state request completes under every interleaving: the manager never
\* tries to connect to komorebic.sock before komorebic has bound it, which
\* would leave komorebic waiting in accept for a reply that was refused
C28_StateReplyArrives ==
    ~(proc.reply = "refused" /\ proc.pc.requester # "done")

\* the event reducer drops the lock after process_event on a paused manager
PausedEventStep ==
    /\ proc.is_paused
    /\ proc.pc.event = "process"
    /\ proc'.pc.event = "recv"
\* the command reducer finishes a TogglePause message
TogglePauseStep ==
    /\ proc.pc.command = "process"
    /\ proc.message = "TogglePause"
    /\ proc'.pc.command = "accept"
\* C29: the manager starts with is_paused false; while is_paused is true every
\* event taken from the channel is consumed without changing the hierarchy or
\* hidden_hwnds; only TogglePause changes is_paused; and the event reducer
\* keeps receiving while paused
C29_PausedEventsIgnored ==
    /\ ~proc.is_paused
    /\ [](proc.is_paused /\ Running /\ proc.pc.event = "recv"
              /\ proc.incoming # <<>> => ENABLED EventRecv)
    /\ [][/\ PausedEventStep =>
                /\ UNCHANGED <<monitors, hidden_hwnds>>
                /\ proc'.consumed = Append(proc.consumed, proc.event.seq)
          /\ proc'.is_paused # proc.is_paused => TogglePauseStep]_vars
\* a paused manager about to consume a Show event for a window no workspace
\* holds
C29_Witness ==
    /\ proc.is_paused
    /\ proc.pc.event = "process"
    /\ proc.event.kind = "Show"
    /\ proc.event.hwnd \notin ManagedWindows(World)
    /\ process_event(World, proc.is_paused, proc.event) = World
    /\ process_event(World, FALSE, proc.event) # World

\* the command reducer finishes a manage or unmanage message
SyntheticStep ==
    /\ proc.pc.command = "process"
    /\ proc.message \in {"ManageFocusedWindow", "UnmanageFocusedWindow"}
    /\ proc'.pc.command = "accept"
\* the step puts exactly one event of the kind of the message, for a window
\* and with the next sequence number, behind everything already queued
OneSyntheticEvent ==
    /\ Len(proc'.callback) = Len(proc.callback) + 1
    /\ SubSeq(proc'.callback, 1, Len(proc.callback)) = proc.callback
    /\ proc'.callback[Len(proc'.callback)].kind
           = (IF proc.message = "ManageFocusedWindow"
              THEN "Manage" ELSE "Unmanage")
    /\ proc'.callback[Len(proc'.callback)].hwnd \in Hwnds
    /\ proc'.callback[Len(proc'.callback)].seq = proc.pushed + 1
    /\ proc'.pushed = proc.pushed + 1
\* the event reducer alone consumes, one event at a time and in push order
ConsumedInOrder ==
    proc'.consumed # proc.consumed =>
        /\ proc.pc.event = "process"
        /\ proc'.consumed = Append(proc.consumed, Len(proc.consumed) + 1)
\* C30 as stated: manage_focused_window and unmanage_focused_window leave the
\* hierarchy alone, each puts exactly one synthetic Manage / Unmanage event for
\* the foreground window at the end of the event channel, and the event
\* reducer consumes it only after every event pushed before it
C30_SyntheticEventAlways ==
    [][/\ SyntheticStep =>
            /\ UNCHANGED <<monitors, hidden_hwnds>>
            /\ proc'.incoming = proc.incoming
            /\ OneSyntheticEvent
       /\ ConsumedInOrder]_vars
\* C30: manage_focused_window and unmanage_focused_window leave the hierarchy
\* alone; when the foreground query succeeds the call returns Ok and has put
\* exactly one synthetic Manage / Unmanage event for the foreground window at
\* the end of the event channel; when the query fails the call returns the
\* error and has put nothing on the channel; and the event reducer consumes
\* an event only after every event pushed before it
C30_SyntheticEventOnly ==
    [][/\ SyntheticStep =>
            /\ UNCHANGED <<monitors, hidden_hwnds>>
            /\ proc'.incoming = proc.incoming
            /\ proc'.result \in {"ok", "err"}
            /\ proc'.result = "ok" => OneSyntheticEvent
            /\ proc'.result = "err" =>
                   /\ proc'.callback = proc.callback
                   /\ proc'.pushed = proc.pushed
       /\ ConsumedInOrder]_vars
\* a synthetic Manage event for an unmanaged window, pushed behind a hook
\* event, reaches the event reducer after that event was consumed
C30_Witness ==
    /\ proc.pc.event = "process"
    /\ proc.event.kind = "Manage"
    /\ proc.event.seq = 2
    /\ proc.consumed = <<1>>
    /\ proc.event.hwnd \notin ManagedWindows(World)
    /\ ~proc.is_paused

\* ------------------------------------------------------------- the workspaces of a monitor
WorkspaceCount(w, i) == RLen(RGet(w.monitors, i).workspaces)
\* what ensure_workspaces_for_monitor(m, n) leaves behind when m is a monitor
Ensured(w, r, m, n) ==
    /\ r.st = "ok"
    /\ WorkspaceCount(r.v, m) =
           (IF WorkspaceCount(w, m) >= n THEN WorkspaceCount(w, m) ELSE n)
    /\ \A j \in 0 .. WorkspaceCount(w, m) - 1 :
          WorkspaceAt(r.v, m, j) = WorkspaceAt(w, m, j)
    /\ \A j \in WorkspaceCount(w, m) .. WorkspaceCount(r.v, m) - 1 :
          WorkspaceAt(r.v, m, j) = DefaultWorkspace
    /\ RGet(r.v.monitors, m).workspaces.focused = RGet(w.monitors, m).workspaces.focused
    /\ RLen(r.v.monitors) = RLen(w.monitors)
    /\ r.v.monitors.focused = w.monitors.focused
    /\ \A i \in 0 .. RLen(w.monitors) - 1 :
          i # m => RGet(r.v.monitors, i) = RGet(w.monitors, i)
    /\ r.v.hidden = w.hidden
EnsureKeeps(w) ==
    \A m \in 0 .. NumMonitors + 1, n \in 0 .. MaxWorkspaces + 1 :
        LET r == ensure_workspaces_for_monitor(w, m, n) IN
        IF RHas(w.monitors, m) THEN Ensured(w, r, m, n)
        ELSE r.st = "err" /\ r.v = w
NeverShrinks ==
    /\ RLen(monitors') = RLen(monitors)
    /\ \A i \in 0 .. RLen(monitors) - 1 :
          RLen(RGet(monitors', i).workspaces) >= RLen(RGet(monitors, i).workspaces)

\* C31: every monitor has at least one workspace from init on and no reducer
\* lowers the number of workspaces of a monitor;
\* ensure_workspaces_for_monitor(m, n) leaves monitor m with max(old count, n)
\* workspaces, every workspace it had unchanged, and returns an error without
\* any change when m names no monitor
C31_WorkspacesNeverShrink ==
    /\ [](\A i \in 0 .. RLen(monitors) - 1 : WorkspaceCount(World, i) >= 1)
    /\ [](EnsureKeeps(World))
    /\ [][NeverShrinks]_vars
\* monitor 0 has grown to two workspaces, the first one still holding a
\* window, while monitor 1 still has the one it started with
C31_Witness ==
    /\ WorkspaceCount(World, 0) = 2
    /\ WorkspaceCount(World, 1) = 1
    /\ RLen(WorkspaceAt(World, 0, 0).containers) > 0
    /\ WorkspaceAt(World, 0, 1) = DefaultWorkspace

\* ------------------------------------------------------------- one container
\* the windows one container may stack
MaxStack == 3
\* a hierarchy of one monitor and one workspace holding container c alone
Holding(c) ==
    Ring(<<Monitor(Ring(<<[DefaultWorkspace EXCEPT
                              !.containers = Ring(<<c>>, 0),
                              !.resize_dimensions = <<NoResize>>]>>, 0))>>, 0)
TheContainer == RGet(WorkspaceAt(World, 0, 0).containers, 0)
\* Container::default: a fresh id and no window
InitContainer ==
    /\ monitors = Holding(Container(1, EmptyRing))
    /\ hidden_hwnds = <<>>
    /\ workspace_rules = Rules
    /\ last = NoCall
    /\ proc = new(<<>>)
ContainerCall(op, arg, ret, c) ==
    /\ monitors' = Holding(c)
    /\ last' = [op |-> op, arg |-> arg, ret |-> ret]
    /\ UNCHANGED <<hidden_hwnds, workspace_rules, proc>>
ContainerAddWindow ==
    \E h \in Handles :
        /\ ~contains_window(TheContainer, h)
        /\ RLen(TheContainer.windows) < MaxStack
        /\ ContainerCall("add_window", h, NoWindow, add_window(TheContainer, h))
\* focus_window is called with the index of a window of the container
ContainerFocusWindow ==
    \E i \in 0 .. RLen(TheContainer.windows) - 1 :
        ContainerCall("focus_window", i, NoWindow, focus_window(TheContainer, i))
ContainerRemoveWindowByIdx ==
    \E i \in 0 .. MaxStack :
        ContainerCall("remove_window_by_idx", i,
                      IF RHas(TheContainer.windows, i) THEN RGet(TheContainer.windows, i)
                      ELSE NoWindow,
                      remove_window_by_idx(TheContainer, i))
ContainerRemoveFocusedWindow ==
    ContainerCall("remove_focused_window", focused_window_idx(TheContainer),
                  RemovedFocusedWindow(TheContainer),
                  remove_focused_window(TheContainer))
NextContainer ==
    \/ ContainerAddWindow
    \/ ContainerFocusWindow
    \/ ContainerRemoveWindowByIdx
    \/ ContainerRemoveFocusedWindow
SpecContainer == InitContainer /\ [][NextContainer]_vars

\* C32: remove_focused_window on a container of n >= 1 windows focused at f
\* removes and returns the window at f, keeps the other windows in their
\* order and leaves the focused index at f - 1 when f >= 1 and at 0 when
\* f = 0; on an empty container it returns None and changes nothing
C32_RemoveFocusedWindow ==
    LET c == TheContainer
        f == focused_window_idx(c)
        n == RLen(c.windows)
        after == remove_focused_window(c)
    IN  IF n >= 1
        THEN /\ f >= 0 /\ f < n
             /\ RemovedFocusedWindow(c) = RGet(c.windows, f)
             /\ after.windows.elements = RemoveAt(c.windows.elements, f)
             /\ after.windows.focused = (IF f >= 1 THEN f - 1 ELSE 0)
             /\ after.id = c.id
        ELSE /\ RemovedFocusedWindow(c) = NoWindow
             /\ after = c

\* ------------------------------------------------------------- stacks and the hidden registry
\* the stacks of one workspace, with the hide and restore calls that other
\* reducers make on its windows between two loads
HideTile == \E h \in Tiles : WindowHide(h)
RestoreTile == \E h \in Tiles : WindowRestore(h)
\* Container::load_focused_window on a container of the focused workspace
LoadFocusedWindow ==
    \E k \in 0 .. RLen(focused_workspace(World).containers) - 1 :
        /\ hidden_hwnds' =
               load_focused_window(RGet(focused_workspace(World).containers, k),
                                   hidden_hwnds)
        /\ last' = [op |-> "load_focused_window", arg |-> k, ret |-> NoWindow]
        /\ UNCHANGED <<monitors, workspace_rules, proc>>
NextLoad ==
    \/ ManageTile
    \/ AddWindowToContainer
    \/ CycleContainerWindowInDirection
    \/ RemoveWindowFromContainer
    \/ HideTile
    \/ RestoreTile
    \/ LoadFocusedWindow
    \/ EnforceWorkspaceRules
SpecLoad == Init /\ [][NextLoad]_vars

\* only the focused window of container c is visible under registry hidden
OnlyFocusedVisible(c, hidden) ==
    /\ focused_window(c) # NoWindow
    /\ focused_window(c) \notin Range(hidden)
    /\ \A h \in Range(c.windows.elements) :
          h # focused_window(c) => h \in Range(hidden)
\* C33: after load_focused_window on a container of n >= 1 windows its
\* focused window is not in hidden_hwnds and each of its other windows is,
\* the container itself being as before; after a successful
\* cycle_container_window_in_direction the same holds for every container of
\* the focused workspace
C33_LoadFocusedWindow ==
    /\ \A k \in 0 .. RLen(focused_workspace(World).containers) - 1 :
          LET c == RGet(focused_workspace(World).containers, k) IN
          RLen(c.windows) >= 1 =>
              OnlyFocusedVisible(c, load_focused_window(c, hidden_hwnds))
    /\ \A d \in {"Previous", "Next"} :
          LET r == cycle_container_window_in_direction(World, d) IN
          r.st = "ok" =>
              \A k \in 0 .. RLen(focused_workspace(r.v).containers) - 1 :
                  OnlyFocusedVisible(RGet(focused_workspace(r.v).containers, k),
                                     r.v.hidden)

\* ------------------------------------------------------------- the steps of enforce_workspace_rules
\* one call enforce_workspace_rules makes on a window, or the reprojection
Called(kind, h) == [kind |-> kind, hwnd |-> h]
Run(st, v, steps) == [st |-> st, v |-> v, steps |-> steps]
\* the two loops fused into one: each window is inserted right after it is
\* removed
RECURSIVE SinglePassRun(_, _, _, _, _)
SinglePassRun(w, ops, fm, fw, steps) ==
    IF ops = <<>> THEN Run("ok", w, steps)
    ELSE LET op == Head(ops)
             removed == RemovePass(w, <<op>>, fm, fw)
             inserted == IF removed.st # "ok" THEN removed
                         ELSE InsertPass(removed.v, <<op>>)
             hidden == IF is_origin(op, fm, fw)
                       THEN <<Called("hide", op.hwnd)>> ELSE <<>>
         IN  IF inserted.st # "ok" THEN Run(inserted.st, inserted.v, steps \o hidden)
             ELSE SinglePassRun(inserted.v, Tail(ops), fm, fw,
                                steps \o hidden \o <<Called("remove", op.hwnd),
                                                     Called("insert", op.hwnd)>>)
EnforceSinglePass(w, rules) ==
    IF ~HasFocusedMonitor(w) THEN Run("err", w, <<>>)
    ELSE LET fm == focused_monitor_idx(w)
             fw == focused_workspace_idx(focused_monitor(w))
             moved == SinglePassRun(w, ToMove(w, rules), fm, fw, <<>>)
         IN  IF moved.st = "ok"
                /\ \E k \in 1 .. Len(moved.steps) : moved.steps[k].kind = "hide"
             THEN Run(update_focused_workspace(moved.v, FALSE).st,
                      update_focused_workspace(moved.v, FALSE).v,
                      Append(moved.steps, Called("update", NoWindow)))
             ELSE moved
\* the removing loop, step by step: the origin workspace is looked up, the
\* window is hidden when it leaves the focused workspace, then it is removed
RECURSIVE RemoveRun(_, _, _, _, _)
RemoveRun(w, ops, fm, fw, steps) ==
    IF ops = <<>> THEN Run("ok", w, steps)
    ELSE LET op == Head(ops) IN
         IF ~HasWorkspace(w, op.origin_monitor_idx, op.origin_workspace_idx)
         THEN Run("err", w, steps)
         ELSE LET focused_origin == is_origin(op, fm, fw)
                  hid == IF focused_origin
                         THEN [w EXCEPT !.hidden = hide(@, op.hwnd)] ELSE w
                  hidden == IF focused_origin
                            THEN Append(steps, Called("hide", op.hwnd)) ELSE steps
                  r == remove_window(WorkspaceAt(w, op.origin_monitor_idx,
                                                 op.origin_workspace_idx), op.hwnd)
              IN  IF r.st # "ok" THEN Run(r.st, hid, hidden)
                  ELSE RemoveRun(SetWorkspaceAt(hid, op.origin_monitor_idx,
                                                op.origin_workspace_idx, r.v),
                                 Tail(ops), fm, fw,
                                 Append(hidden, Called("remove", op.hwnd)))
\* the inserting loop, step by step
RECURSIVE InsertRun(_, _, _)
InsertRun(w, ops, steps) ==
    IF ops = <<>> THEN Run("ok", w, steps)
    ELSE LET op == Head(ops) IN
         IF ~RHas(w.monitors, op.target_monitor_idx) THEN Run("err", w, steps)
         ELSE LET one == InsertPass(w, <<op>>) IN
              InsertRun(one.v, Tail(ops), Append(steps, Called("insert", op.hwnd)))
\* enforce_workspace_rules with the calls it makes, in the order it makes them
EnforceRun(w, rules) ==
    IF ~HasFocusedMonitor(w) THEN Run("err", w, <<>>)
    ELSE LET fm == focused_monitor_idx(w)
             fw == focused_workspace_idx(focused_monitor(w))
             to_move == ToMove(w, rules)
             removed == RemoveRun(w, to_move, fm, fw, <<>>)
             inserted == IF removed.st # "ok" THEN removed
                         ELSE InsertRun(removed.v, to_move, removed.steps)
             should_update_focused_workspace ==
                 \E k \in 1 .. Len(removed.steps) : removed.steps[k].kind = "hide"
         IN  IF inserted.st = "ok" /\ should_update_focused_workspace
             THEN Run(update_focused_workspace(inserted.v, FALSE).st,
                      update_focused_workspace(inserted.v, FALSE).v,
                      Append(inserted.steps, Called("update", NoWindow)))
             ELSE inserted
StepsOf(t, kind) == {k \in 1 .. Len(t) : t[k].kind = kind}
\* the windows the call has to move away from the focused workspace
LeavingFocused(w, rules) ==
    {ToMove(w, rules)[k].hwnd : k \in
        {k \in 1 .. Len(ToMove(w, rules)) :
            is_origin(ToMove(w, rules)[k], focused_monitor_idx(w),
                      focused_workspace_idx(focused_monitor(w)))}}

\* C34: in enforce_workspace_rules every removal of a window from its origin
\* workspace comes before every insertion into a target workspace, a window
\* leaving the focused workspace is hidden right before it is removed, and
\* the focused workspace is re-projected at most once, after all insertions
\* and only when some op had the focused workspace as its origin
C34_TwoPassOrder ==
    LET run == EnforceRun(World, workspace_rules)
        t == run.steps
    IN  /\ Res(run.st, run.v) = enforce_workspace_rules(World, workspace_rules)
        /\ \A a \in StepsOf(t, "remove"), b \in StepsOf(t, "insert") : a < b
        /\ \A a \in StepsOf(t, "remove") :
              t[a].hwnd \in LeavingFocused(World, workspace_rules) =>
                  a > 1 /\ t[a - 1] = Called("hide", t[a].hwnd)
        /\ Cardinality(StepsOf(t, "update")) <= 1
        /\ \A a \in StepsOf(t, "update") :
              /\ a = Len(t)
              /\ StepsOf(t, "insert") # {}
              /\ LeavingFocused(World, workspace_rules) # {}
\* both windows leave the focused workspace for two different workspaces: two
\* hides and removals, then two insertions, then one reprojection
C34_Witness ==
    LET t == EnforceRun(World, workspace_rules).steps IN
    /\ Len(t) = 7
    /\ Cardinality(StepsOf(t, "remove")) = 2
    /\ Cardinality(StepsOf(t, "insert")) = 2
    /\ t[7].kind = "update"
    /\ EnforceRun(World, workspace_rules).st = "ok"

\* ------------------------------------------------------------- stacking onto a neighbour
\* the container of workspace ws with the given id, NoContainer when none
ContainerWithId(ws, id) ==
    IF container_idx_for_id(ws, id) = NoIdx THEN NoContainer
    ELSE RGet(ws.containers, container_idx_for_id(ws, id))
\* add_window_to_container(d) has moved the focused window of w onto the
\* container that was its neighbour in direction d
StackedOntoNeighbour(w, d) ==
    LET ws == focused_workspace(w)
        source == focused_container(ws)
        h == focused_window(source)
        neighbour == RGet(ws.containers, new_idx_for_direction(ws, d))
        r == add_window_to_container(w, d)
        after == focused_workspace(r.v)
        single == RLen(source.windows) = 1
    IN  /\ focused_window(ContainerWithId(after, neighbour.id)) = h
        /\ ContainerWithId(after, neighbour.id).windows.elements =
               Append(neighbour.windows.elements, h)
        /\ WindowSet(after) = WindowSet(ws)
        /\ RLen(after.containers) = RLen(ws.containers) - (IF single THEN 1 ELSE 0)
        /\ single => container_idx_for_id(after, source.id) = NoIdx
        /\ ~single => ContainerWithId(after, source.id).windows.elements =
                          RemoveAt(source.windows.elements, focused_window_idx(source))
\* the states in which add_window_to_container(d) finds a neighbour and succeeds
Stacks(w, d) ==
    /\ HasFocusedWs(w)
    /\ HasFocusedContainer(focused_workspace(w))
    /\ new_idx_for_direction(focused_workspace(w), d) # NoIdx
    /\ add_window_to_container(w, d).st = "ok"

\* C35: when add_window_to_container(d) succeeds the previously focused
\* window is the focused window of the container that was the neighbour in
\* direction d, whether its source held one window (and is removed) or
\* several (and stays); the windows of the workspace are the same and there
\* is one container less exactly when the source held a single window
C35_StackOntoNeighbour ==
    \A d \in Directions : Stacks(World, d) => StackedOntoNeighbour(World, d)

\* ------------------------------------------------------------- moving a container
\* move_container_in_direction(d) has exchanged the focused container of w
\* with its neighbour and kept the focus on it
Exchanged(w, d) ==
    LET ws == focused_workspace(w)
        i == focused_container_idx(ws)
        j == new_idx_for_direction(ws, d)
        r == move_container_in_direction(w, d)
        after == focused_workspace(r.v)
    IN  /\ i # j
        /\ RLen(after.containers) = RLen(ws.containers)
        /\ RGet(after.containers, j) = RGet(ws.containers, i)
        /\ RGet(after.containers, i) = RGet(ws.containers, j)
        /\ \A k \in 0 .. RLen(ws.containers) - 1 :
              k \notin {i, j} => RGet(after.containers, k) = RGet(ws.containers, k)
        /\ focused_container_idx(after) = j
        /\ focused_container(after) = focused_container(ws)
        /\ focused_window(focused_container(after)) = focused_window(focused_container(ws))

\* C36: when move_container_in_direction(d) succeeds with neighbour index j,
\* the containers formerly at the focused index i and at j have exchanged
\* positions, every other container keeps its index, the focused index is j
\* and the focused container is the same container, with the same id, windows
\* and focused window, as before the call
C36_MoveContainerSwaps ==
    \A d \in Directions :
        move_container_in_direction(World, d).st = "ok" => Exchanged(World, d)
\* three containers with the last one focused: moving it Left exchanges it
\* with the first one, two places away
C36_Witness ==
    LET ws == focused_workspace(World) IN
    /\ RLen(ws.containers) = 3
    /\ focused_container_idx(ws) = 2
    /\ new_idx_for_direction(ws, "Left") = 0
    /\ move_container_in_direction(World, "Left").st = "ok"
    /\ Exchanged(World, "Left")

\* ------------------------------------------------------------- cycling a stack
\* the hierarchy of w with the focused container's focused window index set
\* to f and nothing else touched
WithFocusedWindowIdx(w, f) ==
    LET ws == focused_workspace(w) IN
    SetFocusedWorkspace(w,
        SetContainer(ws, focused_container_idx(ws),
                     [focused_container(ws) EXCEPT !.windows.focused = f])).monitors
Cycled(w, d) ==
    LET c == focused_container(focused_workspace(w))
        n == RLen(c.windows)
        f == focused_window_idx(c)
        r == cycle_container_window_in_direction(w, d)
    IN  IF n = 1 THEN r.st = "err" /\ r.v = w
        ELSE /\ r.st = "ok"
             /\ r.v.monitors =
                    WithFocusedWindowIdx(w, IF d = "Next" THEN (f + 1) % n
                                            ELSE (f + n - 1) % n)

\* C37: cycle_container_window_in_direction returns an error and changes
\* nothing when the focused container holds exactly one window; otherwise it
\* changes only the focused window index of the focused container, to the
\* next or previous index with wrap-around, and leaves the membership and
\* order of the containers and every other focus as they were
C37_CycleOnlyMovesFocus ==
    HasFocusedWs(World) /\ HasFocusedContainer(focused_workspace(World)) =>
        \A d \in {"Previous", "Next"} : Cycled(World, d)

\* ------------------------------------------------------------- windows kept by the rules
\* a rule as komorebic workspace-rule registers it, for a monitor the OS does
\* not have
RulesOffMonitor == [k \in {"notepad.exe"} |-> <<NumMonitors, 0>>]
Keeps(w, rules) ==
    ManagedWindows(w) \subseteq ManagedWindows(enforce_workspace_rules(w, rules).v)

\* C38: enforce_workspace_rules never loses a window: every handle in the
\* hierarchy before the call is in the hierarchy after it, whether the call
\* returns Ok or an error, also when the target monitor index of a rule names
\* no monitor
C38_EnforceKeepsWindows ==
    /\ Keeps(World, workspace_rules)
    /\ Keeps(World, RulesOffMonitor)

\* ------------------------------------------------------------- what the rules leave visible
\* on every monitor, the focused window of each container of the monitor's
\* focused workspace is not registered as hidden
VisibleShown(w) ==
    \A i \in 0 .. RLen(w.monitors) - 1 :
        HasFocusedWorkspace(RGet(w.monitors, i)) =>
            \A h \in Range(visible_windows(MonitorFocusedWorkspace(RGet(w.monitors, i)))) :
                h # NoWindow => h \notin Range(w.hidden)

\* C39: after enforce_workspace_rules returns Ok, on every monitor the focused
\* window of each container of that monitor's focused workspace is not in
\* hidden_hwnds, a window moved from the focused workspace of the focused
\* monitor to the focused workspace of another monitor included
C39_EnforceShowsVisible ==
    VisibleShown(World) /\ Enforced.st = "ok" => VisibleShown(Enforced.v)

\* ------------------------------------------------------------- the mutexes of the process
\* the WindowManager mutex, the lazy_static mutexes of main.rs, the mutex
\* around the callback channel and the two around the ends of the event
\* channel that main creates
IdentifierLists == {"float", "manage", "layered", "tray_exes", "tray_classes"}
ChannelMutexes == {"winevent_channel", "outgoing", "incoming"}
Mutexes ==
    {"wm", "rules", "hidden", "object_name_change"} \cup IdentifierLists
        \cup ChannelMutexes
\* the hook thread classifies raw events, the event and command threads
\* reduce under the WindowManager mutex
LockThreads == {"hook", "event", "command"}
\* the windows one enforce_workspace_rules call hides at most, and the
\* Window::hide and Window::restore calls its reprojection makes at most
MaxHides == 2
MaxCalls == 2
Acq(m, fn) == [op |-> "lock", mutex |-> m, fn |-> fn]
Rel(m, fn) == [op |-> "drop", mutex |-> m, fn |-> fn]
\* a guard taken and dropped within one block or one statement
Scoped(m, fn) == <<Acq(m, fn), Rel(m, fn)>>
RECURSIVE Times(_, _)
Times(steps, n) == IF n = 0 THEN <<>> ELSE steps \o Times(steps, n - 1)
\* a should_manage whose guards live until the function returns
ShouldManageLocksNested(matched) ==
    IF matched THEN Scoped("float", "should_manage")
    ELSE <<Acq("float", "should_manage"), Acq("manage", "should_manage"),
           Acq("layered", "should_manage"), Rel("layered", "should_manage"),
           Rel("manage", "should_manage"), Rel("float", "should_manage")>>
\* Window::should_manage: the float list in a block of its own (left early
\* when an identifier matched), then the manage list, then the layered list
ShouldManageLocks(matched) ==
    IF matched THEN Scoped("float", "should_manage")
    ELSE Scoped("float", "should_manage") \o Scoped("manage", "should_manage")
             \o Scoped("layered", "should_manage")
\* Window::hide, Window::restore and Window::maximize
HiddenLocks(fn) == Scoped("hidden", fn)
\* enforce_workspace_rules: the guard on WORKSPACE_RULES lives from line 229
\* to the return, early returns included; every hide of the removal loop
\* takes HIDDEN_HWNDS under it, and so does each of the calls Window::hide and
\* Window::restore calls of the reprojection, which is reached only when
\* something was hidden and both loops got through without an error
EnforceLocks(hides, calls) ==
    <<Acq("rules", "enforce_workspace_rules")>>
        \o Times(HiddenLocks("enforce_workspace_rules"), hides)
        \o (IF hides > 0
            THEN Times(HiddenLocks("enforce_workspace_rules"), calls) ELSE <<>>)
        \o <<Rel("rules", "enforce_workspace_rules")>>
\* manage_focused_window and unmanage_focused_window: the guard on
\* WINEVENT_CALLBACK_CHANNEL is a temporary of the send statement
SendLocks(fn) == Scoped("winevent_channel", fn)
\* the callback of the hook reads OBJECT_NAME_CHANGE_ON_LAUNCH and pushes the
\* event on the callback channel
CallbackLocks ==
    Scoped("object_name_change", "win_event_hook")
        \o Scoped("winevent_channel", "win_event_hook")
\* the listener takes an event off the callback channel and sends it on the
\* outgoing end while the guard on the callback channel is still alive
ForwardLocks ==
    <<Acq("winevent_channel", "winevent_listener"),
      Acq("outgoing", "winevent_listener"),
      Rel("outgoing", "winevent_listener"),
      Rel("winevent_channel", "winevent_listener")>>
\* State::from: the guards are temporaries of one struct expression, alive
\* together until it is built and dropped in reverse order
StateLocks ==
    <<Acq("float", "State::from"), Acq("manage", "State::from"),
      Acq("layered", "State::from"), Acq("tray_exes", "State::from"),
      Acq("tray_classes", "State::from"), Rel("tray_classes", "State::from"),
      Rel("tray_exes", "State::from"), Rel("layered", "State::from"),
      Rel("manage", "State::from"), Rel("float", "State::from")>>
\* a reducer runs between taking and dropping the WindowManager mutex
UnderWm(steps, fn) == <<Acq("wm", fn)>> \o steps \o <<Rel("wm", fn)>>
\* what each thread may run next
EnforcePrograms ==
    {EnforceLocks(n, k) : n \in 0 .. MaxHides, k \in 0 .. MaxCalls}
Programs(t) ==
    CASE t = "hook" ->
           {ShouldManageLocks(matched) : matched \in BOOLEAN}
               \cup {CallbackLocks, ForwardLocks}
      [] t = "event" ->
           {UnderWm(Scoped("incoming", "listen_for_events"), "listen_for_events")}
               \cup
           {UnderWm(ShouldManageLocks(matched) \o body, "process_event") :
               matched \in BOOLEAN,
               body \in {<<>>, HiddenLocks("process_event")} \cup EnforcePrograms}
      [] t = "command" ->
           {UnderWm(body, "process_command") :
               body \in {Scoped(m, "process_command") :
                            m \in IdentifierLists \cup {"rules"}}
                        \cup {HiddenLocks("process_command"), StateLocks,
                              SendLocks("manage_focused_window"),
                              SendLocks("unmanage_focused_window")}
                        \cup {Scoped("rules", "process_command") \o body2 :
                                 body2 \in EnforcePrograms}}
NoLocks ==
    [held |-> [m \in Mutexes |-> "none"], todo |-> [t \in LockThreads |-> <<>>]]
InitLocks ==
    /\ monitors = Ring([i \in 1 .. NumMonitors |->
                           Monitor(Ring(<<DefaultWorkspace>>, 0))], 0)
    /\ hidden_hwnds = <<>>
    /\ workspace_rules = Rules
    /\ last = NoCall
    /\ proc = NoLocks
Begin(t) ==
    /\ proc.todo[t] = <<>>
    /\ \E steps \in Programs(t) : proc' = [proc EXCEPT !.todo[t] = steps]
    /\ UNCHANGED <<monitors, hidden_hwnds, workspace_rules, last>>
\* parking_lot::Mutex::lock: returns once the mutex is free; it is not
\* reentrant
Lock(t) ==
    /\ proc.todo[t] # <<>>
    /\ Head(proc.todo[t]).op = "lock"
    /\ proc.held[Head(proc.todo[t]).mutex] = "none"
    /\ proc' = [proc EXCEPT !.held[Head(proc.todo[t]).mutex] = t,
                            !.todo[t] = Tail(@)]
    /\ UNCHANGED <<monitors, hidden_hwnds, workspace_rules, last>>
Drop(t) ==
    /\ proc.todo[t] # <<>>
    /\ Head(proc.todo[t]).op = "drop"
    /\ proc' = [proc EXCEPT !.held[Head(proc.todo[t]).mutex] = "none",
                            !.todo[t] = Tail(@)]
    /\ UNCHANGED <<monitors, hidden_hwnds, workspace_rules, last>>
NextLocks ==
    \/ \E t \in LockThreads : Begin(t)
    \/ \E t \in LockThreads : Lock(t)
    \/ \E t \in LockThreads : Drop(t)
SpecLocks == InitLocks /\ [][NextLocks]_vars

HeldBy(t) == {m \in Mutexes : proc.held[m] = t}
Wants(t) ==
    IF proc.todo[t] # <<>> /\ Head(proc.todo[t]).op = "lock"
    THEN Head(proc.todo[t]).mutex ELSE "none"
\* t waits for a mutex that some thread holds
Blocked(t) == Wants(t) # "none" /\ proc.held[Wants(t)] # "none"
\* the threads t waits for, directly or through at most n other waits
RECURSIVE WaitsOn(_, _)
WaitsOn(t, n) ==
    IF ~Blocked(t) THEN {}
    ELSE IF n = 0 THEN {proc.held[Wants(t)]}
    ELSE {proc.held[Wants(t)]} \cup WaitsOn(proc.held[Wants(t)], n - 1)
\* the one order in which every thread takes the mutexes
Rank(m) ==
    CASE m = "wm" -> 0 [] m = "rules" -> 1 [] m = "float" -> 2
      [] m = "manage" -> 3 [] m = "layered" -> 4 [] m = "tray_exes" -> 5
      [] m = "tray_classes" -> 6 [] m = "hidden" -> 7
      [] m = "incoming" -> 8 [] m = "object_name_change" -> 9
      [] m = "winevent_channel" -> 10 [] m = "outgoing" -> 11
InShouldManage(t) ==
    proc.todo[t] # <<>> /\ Head(proc.todo[t]).fn = "should_manage"

\* C40: no interleaving of the classifying thread, the event reducer, the
\* command reducer and enforce_workspace_rules reaches a deadlock: no thread
\* waits, directly or through other waiting threads, for a mutex it holds
\* itself; every thread takes the mutexes in one order; should_manage never
\* holds two identifier lists at once
C40_NoDeadlock ==
    \A t \in LockThreads :
        /\ t \notin WaitsOn(t, Cardinality(LockThreads))
        /\ Wants(t) # "none" => \A m \in HeldBy(t) : Rank(m) < Rank(Wants(t))
        /\ InShouldManage(t) =>
              Cardinality(HeldBy(t) \cap IdentifierLists) <= 1
\* enforce_workspace_rules runs in the event reducer and holds the
\* WindowManager, WORKSPACE_RULES and HIDDEN_HWNDS mutexes inside hide, while
\* the hook thread reads the manage list in should_manage and the command
\* thread waits for the WindowManager mutex
C40_Witness ==
    /\ HeldBy("event") = {"wm", "rules", "hidden"}
    /\ HeldBy("hook") = {"manage"}
    /\ Blocked("command") /\ Wants("command") = "wm"
====
